---- MODULE Spec2Model ----
(***************************************************************************)
(* A model of the sd-image-sorter backend: the normalizers and token       *)
(* indexer of database.py, the image/tag store and its get_images filter   *)
(* engine, and the generator detection chain of metadata_parser.py.        *)
(*                                                                         *)
(* Text is modelled as a sequence of one-character strings, so that the    *)
(* regular expressions, LIKE patterns and splits of the code are computed  *)
(* character by character.  A text constant is named t_<text>.             *)
(***************************************************************************)
EXTENDS Integers, Sequences, FiniteSets, TLC

(***************************************************************************)
(* Python str primitives                                                   *)
(***************************************************************************)

\* str.lower() on one character (ASCII letters)
ToLower ==
    [A |-> "a", B |-> "b", C |-> "c", D |-> "d", E |-> "e", F |-> "f",
     G |-> "g", H |-> "h", I |-> "i", J |-> "j", K |-> "k", L |-> "l",
     M |-> "m", N |-> "n", O |-> "o", P |-> "p", Q |-> "q", R |-> "r",
     S |-> "s", T |-> "t", U |-> "u", V |-> "v", W |-> "w", X |-> "x",
     Y |-> "y", Z |-> "z"]

LowerChar(c) == IF c \in DOMAIN ToLower THEN ToLower[c] ELSE c

\* str.lower()
Lower(s) == [i \in 1..Len(s) |-> LowerChar(s[i])]

\* str.replace(a, b) for single characters a, b
ReplaceChar(s, a, b) == [i \in 1..Len(s) |-> IF s[i] = a THEN b ELSE s[i]]

\* the characters str.strip() removes
Whitespace == {" ", "\t", "\n", "\r"}

Digits == {"0", "1", "2", "3", "4", "5", "6", "7", "8", "9"}

\* str.strip()
Strip(s) ==
    LET keep == {i \in 1..Len(s) : s[i] \notin Whitespace}
    IN  IF keep = {} THEN <<>>
        ELSE LET lo == CHOOSE i \in keep : \A j \in keep : i <= j
                 hi == CHOOSE i \in keep : \A j \in keep : j <= i
             IN  SubSeq(s, lo, hi)

\* s[i:] (1-based, inclusive start)
From(s, i) == SubSeq(s, i, Len(s))

\* s.startswith(p) at offset i: s[i .. i+len(p)-1] = p
MatchesAt(s, i, p) ==
    /\ i >= 1
    /\ i + Len(p) - 1 <= Len(s)
    /\ \A k \in 1..Len(p) : s[i + k - 1] = p[k]

StartsWith(s, p) == MatchesAt(s, 1, p)

EndsWith(s, p) == Len(p) <= Len(s) /\ MatchesAt(s, Len(s) - Len(p) + 1, p)

\* `p in s`
Contains(s, p) == \E i \in 1..(Len(s) + 1) : MatchesAt(s, i, p)

\* index of the first c at or after position i, 0 when there is none
Find(s, c, i) ==
    LET hits == {k \in i..Len(s) : s[k] = c}
    IN  IF hits = {} THEN 0 ELSE CHOOSE k \in hits : \A j \in hits : k <= j

\* index of the last c, 0 when there is none (str.rsplit(c, 1))
RFind(s, c) ==
    LET hits == {k \in 1..Len(s) : s[k] = c}
    IN  IF hits = {} THEN 0 ELSE CHOOSE k \in hits : \A j \in hits : j <= k

\* str.split(c): the pieces between the occurrences of c, empty pieces kept
RECURSIVE Split(_, _)
Split(s, c) ==
    LET k == Find(s, c, 1)
    IN  IF k = 0 THEN <<s>>
        ELSE <<SubSeq(s, 1, k - 1)>> \o Split(From(s, k + 1), c)

\* sep.join(parts)
RECURSIVE Join(_, _)
Join(parts, sep) ==
    IF parts = <<>> THEN <<>>
    ELSE IF Len(parts) = 1 THEN parts[1]
    ELSE parts[1] \o sep \o Join(Tail(parts), sep)

\* Op applied to the value of x, which is computed once
With(x, Op(_)) == CHOOSE y \in {Op(v) : v \in {x}} : TRUE

\* the set of the elements of a sequence
Range(f) == {f[i] : i \in DOMAIN f}

\* re.sub(pattern, '', s): Match(s, i) is the last index of the match that
\* starts at i, or 0 when the pattern does not match there; matches are taken
\* leftmost and do not overlap
RECURSIVE ReSubFrom(_, _, _)
ReSubFrom(Match(_, _), s, i) ==
    LET hits == {k \in i..Len(s) : Match(s, k) > 0}
    IN  IF hits = {} THEN From(s, i)
        ELSE LET k == CHOOSE h \in hits : \A j \in hits : h <= j
             IN  SubSeq(s, i, k - 1) \o ReSubFrom(Match, s, Match(s, k) + 1)

ReSub(Match(_, _), s) == ReSubFrom(Match, s, 1)

(***************************************************************************)
(* Normalizer (database.py)                                                *)
(***************************************************************************)

\* the mutant of normalize_prompt_token that forgets the underscore rule
normalize_prompt_token_keep_underscore(token) == Strip(Lower(token))

normalize_prompt_token(token) == Strip(ReplaceChar(Lower(token), "_", " "))

\* one run of digits as float() reads it: digits, single underscores between
IsDigitPart(t) ==
    /\ t # <<>>
    /\ t[1] \in Digits
    /\ t[Len(t)] \in Digits
    /\ \A i \in 1..Len(t) : t[i] \in Digits \cup {"_"}
    /\ \A i \in 1..(Len(t) - 1) : ~(t[i] = "_" /\ t[i + 1] = "_")

\* digits [. digits] | digits . | . digits
IsMantissa(t) ==
    LET dot == Find(t, ".", 1)
    IN  IF dot = 0 THEN IsDigitPart(t)
        ELSE LET a == SubSeq(t, 1, dot - 1)
                 b == From(t, dot + 1)
             IN  /\ (a # <<>> \/ b # <<>>)
                 /\ (a = <<>> \/ IsDigitPart(a))
                 /\ (b = <<>> \/ IsDigitPart(b))

IsUnsignedFloat(t) ==
    LET l == Lower(t)
        e == Find(l, "e", 1)
    IN  \/ l \in {<<"i","n","f">>, <<"n","a","n">>,
                  <<"i","n","f","i","n","i","t","y">>}
        \/ e = 0 /\ IsMantissa(l)
        \/ /\ e > 0
           /\ IsMantissa(SubSeq(l, 1, e - 1))
           /\ LET x == From(l, e + 1)
                  y == IF x # <<>> /\ x[1] \in {"+", "-"} THEN Tail(x) ELSE x
              IN  IsDigitPart(y)

\* whether float(t) succeeds (no ValueError)
IsFloat(t) ==
    LET u == Strip(t)
        v == IF u # <<>> /\ u[1] \in {"+", "-"} THEN Tail(u) ELSE u
    IN  IsUnsignedFloat(v)

extensions_to_strip ==
    << <<".","s","a","f","e","t","e","n","s","o","r","s">>,
       <<".","c","k","p","t">>,
       <<".","p","t">>,
       <<".","p","t","h">>,
       <<".","b","i","n">> >>

\* lines 37-44: drop what follows the last colon when it reads as a number
StripWeight(lora_name) ==
    LET k == RFind(lora_name, ":")
    IN  IF k > 0 /\ IsFloat(From(lora_name, k + 1))
        THEN SubSeq(lora_name, 1, k - 1)
        ELSE lora_name

\* lines 47-52: drop the first listed extension the lowercased name ends with
StripExtension(lora_name) ==
    LET lora_lower == Lower(lora_name)
        hits == {e \in 1..Len(extensions_to_strip) :
                    EndsWith(lora_lower, extensions_to_strip[e])}
    IN  IF hits = {} THEN lora_name
        ELSE LET e == CHOOSE x \in hits : \A y \in hits : x <= y
             IN  SubSeq(lora_name, 1, Len(lora_name) - Len(extensions_to_strip[e]))

normalize_lora_name(lora_name) ==
    Strip(Lower(StripExtension(StripWeight(lora_name))))

(***************************************************************************)
(* TokenIndexer (database.py)                                              *)
(***************************************************************************)

\* r'<[^>]+>[^<]*</[^>]+>' at i
MatchTagPair(s, i) ==
    IF ~(i <= Len(s) /\ s[i] = "<") THEN 0
    ELSE LET j == Find(s, ">", i + 1)
         IN  IF j < i + 2 THEN 0
             ELSE LET k == Find(s, "<", j + 1)
                  IN  IF k = 0 \/ ~MatchesAt(s, k, <<"<", "/">>) THEN 0
                      ELSE LET m == Find(s, ">", k + 2)
                           IN  IF m < k + 3 THEN 0 ELSE m

\* r'<lora:[^>]+>' at i
MatchLoraTag(s, i) ==
    IF ~MatchesAt(s, i, <<"<","l","o","r","a",":">>) THEN 0
    ELSE LET j == Find(s, ">", i + 6)
         IN  IF j < i + 7 THEN 0 ELSE j

\* r'<[^>]+>' at i
MatchAnyTag(s, i) ==
    IF ~(i <= Len(s) /\ s[i] = "<") THEN 0
    ELSE LET j == Find(s, ">", i + 1)
         IN  IF j < i + 2 THEN 0 ELSE j

\* lines 70-72
CleanPrompt(prompt) ==
    ReSub(MatchAnyTag, ReSub(MatchLoraTag, ReSub(MatchTagPair, prompt)))

\* re.sub(r'^\(+|\)+$', '', token): the leading run of ( and the trailing run of )
StripParens(token) ==
    LET n == Len(token)
        notOpen == {i \in 1..n : token[i] # "("}
        lo == IF notOpen = {} THEN n + 1
              ELSE CHOOSE i \in notOpen : \A j \in notOpen : i <= j
        rest == From(token, lo)
        notClose == {i \in 1..Len(rest) : rest[i] # ")"}
        hi == IF notClose = {} THEN 0
              ELSE CHOOSE i \in notClose : \A j \in notClose : j <= i
    IN  SubSeq(rest, 1, hi)

\* \d+\.?\d*\)? in full
IsWeightTail(t) ==
    LET r == IF t # <<>> /\ t[Len(t)] = ")" THEN SubSeq(t, 1, Len(t) - 1) ELSE t
        dots == {i \in 1..Len(r) : r[i] = "."}
    IN  /\ r # <<>>
        /\ r[1] \in Digits
        /\ Cardinality(dots) <= 1
        /\ \A i \in 1..Len(r) : r[i] \in Digits \cup {"."}

\* re.sub(r':\d+\.?\d*\)?$', '', token); $ also matches before a final newline
StripWeightSuffix(token) ==
    LET n == Len(token)
        body == IF n > 0 /\ token[n] = "\n" THEN SubSeq(token, 1, n - 1) ELSE token
        tailNl == IF n > 0 /\ token[n] = "\n" THEN <<"\n">> ELSE <<>>
        atEnd == {i \in 1..n : token[i] = ":" /\ IsWeightTail(From(token, i + 1))}
        atNl == {i \in 1..Len(body) : body[i] = ":" /\ IsWeightTail(From(body, i + 1))}
        first(S) == CHOOSE i \in S : \A j \in S : i <= j
    IN  IF atEnd = {} /\ atNl = {} THEN token
        ELSE IF atNl = {} THEN SubSeq(token, 1, first(atEnd) - 1)
        ELSE IF atEnd = {} \/ first(atNl) <= first(atEnd)
             THEN SubSeq(body, 1, first(atNl) - 1) \o tailNl
        ELSE SubSeq(token, 1, first(atEnd) - 1)

\* lines 76-87 for one comma-separated piece: the set of tokens it contributes
TokenOf(piece) ==
    LET token == Strip(piece)
        clean_token == Strip(StripWeightSuffix(StripParens(token)))
        normalized == normalize_prompt_token(clean_token)
    IN  IF token = <<>> THEN {}
        ELSE IF Len(clean_token) > 1 /\ Len(normalized) > 1 THEN {normalized}
        ELSE {}

\* the value of a NULL column / a Python None
Null == <<"NULL">>

\* `if not prompt`: None or the empty string
Falsy(s) == s = Null \/ s = <<>>

extract_prompt_tokens(prompt) ==
    IF Falsy(prompt) THEN {}
    ELSE LET pieces == Split(CleanPrompt(prompt), ",")
         IN  UNION {TokenOf(pieces[i]) : i \in 1..Len(pieces)}

(***************************************************************************)
(* json.dumps / json.loads of the `loras` column: a list of strings        *)
(***************************************************************************)

\* the JSON escape of one character inside a string literal
JsonEscape(c) ==
    IF c = "\"" THEN <<"\\", "\"">>
    ELSE IF c = "\\" THEN <<"\\", "\\">>
    ELSE IF c = "\n" THEN <<"\\", "n">>
    ELSE IF c = "\t" THEN <<"\\", "t">>
    ELSE IF c = "\r" THEN <<"\\", "r">>
    ELSE <<c>>

RECURSIVE JsonString(_)
JsonString(s) ==
    IF s = <<>> THEN <<>> ELSE JsonEscape(Head(s)) \o JsonString(Tail(s))

\* json.dumps(list of str): ["a", "b"]
json_dumps(list) ==
    <<"[">>
    \o Join([i \in 1..Len(list) |-> <<"\"">> \o JsonString(list[i]) \o <<"\"">>],
            <<",", " ">>)
    \o <<"]">>

\* the character an escape \c stands for, "" when json.loads rejects it
JsonUnescape(c) ==
    IF c \in {"\"", "\\", "/"} THEN c
    ELSE IF c = "n" THEN "\n"
    ELSE IF c = "t" THEN "\t"
    ELSE IF c = "r" THEN "\r"
    ELSE ""

SkipWs(text, i) ==
    LET rest == {k \in i..Len(text) : text[k] \notin Whitespace}
    IN  IF rest = {} THEN Len(text) + 1 ELSE CHOOSE k \in rest : \A j \in rest : k <= j

\* a string literal whose opening quote is at i - 1: [ok, value, next]
RECURSIVE JsonReadString(_, _, _)
JsonReadString(text, i, acc) ==
    LET stops == {k \in i..Len(text) : text[k] \in {"\"", "\\", "\n", "\t", "\r"}}
    IN  IF stops = {} THEN [ok |-> FALSE, value |-> <<>>, next |-> Len(text) + 1]
        ELSE LET k == CHOOSE h \in stops : \A j \in stops : h <= j
                 run == acc \o SubSeq(text, i, k - 1)
             IN  IF text[k] = "\"" THEN [ok |-> TRUE, value |-> run, next |-> k + 1]
                 ELSE IF text[k] \in {"\n", "\t", "\r"}
                 THEN [ok |-> FALSE, value |-> <<>>, next |-> k]
                 ELSE IF k + 1 > Len(text) \/ JsonUnescape(text[k + 1]) = ""
                 THEN [ok |-> FALSE, value |-> <<>>, next |-> k]
                 ELSE JsonReadString(text, k + 2, Append(run, JsonUnescape(text[k + 1])))

\* the items of an array after its "[" or after a ",": [ok, value]
RECURSIVE JsonReadItems(_, _, _)
JsonReadItems(text, i, acc) ==
    LET a == SkipWs(text, i)
    IN  IF a > Len(text) \/ text[a] # "\"" THEN [ok |-> FALSE, value |-> <<>>]
        ELSE LET str == JsonReadString(text, a + 1, <<>>)
                 b == SkipWs(text, str.next)
             IN  IF ~str.ok \/ b > Len(text) THEN [ok |-> FALSE, value |-> <<>>]
                 ELSE IF text[b] = ","
                      THEN JsonReadItems(text, b + 1, Append(acc, str.value))
                 ELSE IF text[b] = "]" /\ SkipWs(text, b + 1) > Len(text)
                      THEN [ok |-> TRUE, value |-> Append(acc, str.value)]
                 ELSE [ok |-> FALSE, value |-> <<>>]

\* json.loads of a text that holds an array of strings: [ok, value]; ok is
\* FALSE where json.loads raises.  Other JSON documents are never stored in
\* the column (add_image writes json.dumps of a list) and read as not ok.
json_loads(text) ==
    LET a == SkipWs(text, 1)
    IN  IF a > Len(text) \/ text[a] # "[" THEN [ok |-> FALSE, value |-> <<>>]
        ELSE LET b == SkipWs(text, a + 1)
             IN  IF b <= Len(text) /\ text[b] = "]" /\ SkipWs(text, b + 1) > Len(text)
                 THEN [ok |-> TRUE, value |-> <<>>]
                 ELSE JsonReadItems(text, a + 1, <<>>)

(***************************************************************************)
(* extract_lora_names (database.py)                                        *)
(***************************************************************************)

\* r'<lora:([^:>]+)(?::[^>]+)?>' with re.IGNORECASE at i: [end, name],
\* end = 0 when the pattern does not match at i
MatchLoraRef(s, i) ==
    IF ~MatchesAt(Lower(s), i, <<"<","l","o","r","a",":">>)
    THEN [end |-> 0, name |-> <<>>]
    ELSE LET stops == {k \in (i + 6)..Len(s) : s[k] \in {":", ">"}}
             e == IF stops = {} THEN 0 ELSE CHOOSE k \in stops : \A j \in stops : k <= j
             name == SubSeq(s, i + 6, e - 1)
         IN  IF e < i + 7 THEN [end |-> 0, name |-> <<>>]
             ELSE IF s[e] = ">" THEN [end |-> e, name |-> name]
             ELSE LET j == Find(s, ">", e + 1)
                  IN  IF j < e + 2 THEN [end |-> 0, name |-> <<>>]
                      ELSE [end |-> j, name |-> name]

\* re.findall of that pattern: the captured names, in order
RECURSIVE FindLoraRefs(_, _)
FindLoraRefs(s, i) ==
    LET hits == {k \in i..Len(s) : MatchLoraRef(s, k).end > 0}
    IN  IF hits = {} THEN <<>>
        ELSE LET m == MatchLoraRef(s, CHOOSE h \in hits : \A j \in hits : h <= j)
             IN  <<m.name>> \o FindLoraRefs(s, m.end + 1)

\* lines 104-107 / 115-118: the keys one raw name contributes
LoraKeyOf(lora_name) ==
    LET normalized == normalize_lora_name(lora_name)
    IN  IF Len(lora_name) > 2 /\ Len(normalized) > 2 THEN {normalized} ELSE {}

extract_lora_names(loras_json, prompt) ==
    LET decoded == IF Falsy(loras_json) THEN [ok |-> FALSE, value |-> <<>>]
                   ELSE json_loads(loras_json)
        fromJson == IF decoded.ok
                    THEN UNION {LoraKeyOf(decoded.value[i]) : i \in 1..Len(decoded.value)}
                    ELSE {}
        refs == IF Falsy(prompt) THEN <<>> ELSE FindLoraRefs(prompt, 1)
        fromPrompt == UNION {LoraKeyOf(refs[i]) : i \in 1..Len(refs)}
    IN  fromJson \cup fromPrompt

(***************************************************************************)
(* SQLite expressions used by the queries                                  *)
(***************************************************************************)

\* x LIKE pattern: % is any run, _ any one character, ASCII case-insensitive
RECURSIVE Like(_, _)
Like(pattern, x) ==
    IF pattern = <<>> THEN x = <<>>
    ELSE IF Head(pattern) = "%"
         THEN \E k \in 1..(Len(x) + 1) : Like(Tail(pattern), From(x, k))
    ELSE /\ x # <<>>
         /\ (Head(pattern) = "_" \/ LowerChar(Head(pattern)) = LowerChar(Head(x)))
         /\ Like(Tail(pattern), Tail(x))

\* column LIKE '%needle%'; a NULL column never matches
LikeContains(column, needle) ==
    column # Null /\ Like(<<"%">> \o needle \o <<"%">>, column)

\* LOWER(column), REPLACE(column, a, b): NULL stays NULL
SqlLower(column) == IF column = Null THEN Null ELSE Lower(column)

SqlReplace(column, a, b) == IF column = Null THEN Null ELSE ReplaceChar(column, a, b)

(***************************************************************************)
(* The store (database.py): the tables images and tags                     *)
(***************************************************************************)

VARIABLES
    images,         \* the committed rows of table images
    tags,           \* the committed rows of table tags
    next_image_id,  \* sqlite_sequence of images (AUTOINCREMENT): the next id
    next_tag_id,    \* sqlite_sequence of tags
    tag_job,        \* run_tagging: the rows it fetched that are still to tag
    gi_pc,          \* get_images: "idle", or "fetched" after its query
    gi_req,         \* get_images: the arguments of the call in progress
    gi_rows,        \* get_images: the rows its query returned
    gi_seen,        \* the tables as the query of get_images read them
    gi_result,      \* get_images: the list the last call returned
    last_op,        \* the operation that made the last step, with its arguments
    parsed,         \* metadata_parser: the last input and its result
    scan_progress,  \* routers/sorting.py: the process-wide progress of scans
    scan_jobs,      \* the run_scan background tasks: their position and locals
    censor_detector, \* routers/censor.py: the cached detector (_censor_detector)
    sort_session,   \* routers/sorting.py: the manual sort session
    disk            \* the image files on disk: their paths and contents

vars == <<images, tags, next_image_id, next_tag_id, tag_job,
          gi_pc, gi_req, gi_rows, gi_seen, gi_result, last_op, parsed,
          scan_progress, scan_jobs, censor_detector, sort_session, disk>>

store_vars == <<images, tags, next_image_id, next_tag_id>>

gi_vars == <<gi_pc, gi_req, gi_rows, gi_seen, gi_result>>

scan_vars == <<scan_progress, scan_jobs>>

app_vars == <<censor_detector, sort_session, disk>>

t_general == <<"g","e","n","e","r","a","l">>

t_sensitive == <<"s","e","n","s","i","t","i","v","e">>

t_questionable == <<"q","u","e","s","t","i","o","n","a","b","l","e">>

t_explicit == <<"e","x","p","l","i","c","i","t">>

\* database.py line 320
all_ratings == {t_general, t_sensitive, t_questionable, t_explicit}

\* os.path.basename
Basename(path) == From(path, RFind(path, "/") + 1)

\* INSERT OR REPLACE INTO images: the rows that break UNIQUE(path) are deleted
\* first, then the row is inserted.  The mutant inserts without replacing.
InsertKeepingOld(rows, row) == rows \cup {row}

InsertOrReplace(rows, row) == {r \in rows : r.path # row.path} \cup {row}

\* FOREIGN KEY (image_id) REFERENCES images(id) ON DELETE CASCADE is enforced
\* only under PRAGMA foreign_keys = ON, which get_connection never issues:
\* SQLite's default leaves the tag rows of a deleted image in place.
foreign_keys == FALSE

\* the tag rows left after the image rows of `gone` were deleted
AfterImageDelete(tagrows, gone) ==
    IF foreign_keys THEN {t \in tagrows : t.image_id \notin {g.id : g \in gone}}
    ELSE tagrows

\* the row add_image writes for the values d, under the id the table assigns
NewImageRow(d, id) ==
    [id |-> id, path |-> d.path, filename |-> d.filename,
     generator |-> d.generator, prompt |-> d.prompt,
     metadata_json |-> d.metadata_json, width |-> d.width, height |-> d.height,
     file_size |-> d.file_size, checkpoint |-> d.checkpoint,
     loras |-> IF d.loras # <<>> THEN json_dumps(d.loras) ELSE Null,
     created_at |-> d.created_at, tagged_at |-> "NULL"]

\* the tag rows add_tags / import_tags insert for the entries of a tag list
\* that have a non-empty tag string, under consecutive ids from first_id
RECURSIVE InsertTagRows(_, _, _)
InsertTagRows(image_id, taglist, first_id) ==
    IF taglist = <<>> THEN {}
    ELSE IF Head(taglist).tag = <<>>
         THEN InsertTagRows(image_id, Tail(taglist), first_id)
    ELSE {[id |-> first_id, image_id |-> image_id,
           tag |-> Head(taglist).tag, confidence |-> Head(taglist).confidence]}
         \cup InsertTagRows(image_id, Tail(taglist), first_id + 1)

\* add_tags: DELETE FROM tags WHERE image_id = ?, then the inserts.  The
\* mutant keeps the old rows.
TagsAfterAddKeepingOld(tagrows, image_id, taglist, first_id) ==
    tagrows \cup InsertTagRows(image_id, taglist, first_id)

TagsAfterAdd(tagrows, image_id, taglist, first_id) ==
    {t \in tagrows : t.image_id # image_id}
    \cup InsertTagRows(image_id, taglist, first_id)

\* UPDATE images SET tagged_at = CURRENT_TIMESTAMP WHERE id = ?
SetTaggedAt(rows, image_id) ==
    {IF r.id = image_id THEN [r EXCEPT !.tagged_at = "CURRENT_TIMESTAMP"] ELSE r
        : r \in rows}

NonEmptyTags(taglist) == SelectSeq(taglist, LAMBDA e : e.tag # <<>>)

(***************************************************************************)
(* get_images (database.py): the coarse query                              *)
(***************************************************************************)

t_character == <<"c","h","a","r","a","c","t","e","r">>

TagsOf(tagrows, image_id) == {t \in tagrows : t.image_id = image_id}

\* lines 305-309: one INNER JOIN per requested tag; the number of joined
\* rows one image yields
RECURSIVE JoinCount(_, _, _)
JoinCount(img, tagrows, wanted) ==
    IF wanted = <<>> THEN 1
    ELSE Cardinality({t \in TagsOf(tagrows, img.id) : LikeContains(t.tag, Head(wanted))})
         * JoinCount(img, tagrows, Tail(wanted))

\* lines 320-331, as written: a rating tag of the set, or tagged_at IS NULL
RatingCondition(img, tagrows, ratings) ==
    IF ratings # <<>> /\ Range(ratings) # all_ratings
    THEN \/ \E t \in TagsOf(tagrows, img.id) : t.tag \in Range(ratings)
         \/ img.tagged_at = "NULL"
    ELSE TRUE

\* lines 342-352
LoraCoarseCondition(img, loras) ==
    loras # <<>> =>
        \E i \in 1..Len(loras) :
            LET lora_normalized == normalize_lora_name(loras[i])
            IN  \/ LikeContains(SqlLower(img.loras), lora_normalized)
                \/ LikeContains(SqlLower(img.metadata_json), lora_normalized)
                \/ LikeContains(SqlLower(img.prompt), lora_normalized)

\* lines 356-359
SearchCondition(img, search_query) ==
    ~Falsy(search_query) =>
        \/ LikeContains(SqlReplace(SqlLower(img.prompt), "_", " "),
                        normalize_prompt_token(search_query))
        \/ LikeContains(SqlLower(img.filename), Lower(search_query))

\* lines 364-368: the mutant drops the coarse prompt-term conditions
PromptCoarseNone(img, prompt_terms) == TRUE

PromptCoarseCondition(img, prompt_terms) ==
    \A i \in 1..Len(prompt_terms) :
        LikeContains(SqlReplace(SqlLower(img.prompt), "_", " "),
                     normalize_prompt_token(prompt_terms[i]))

\* lines 371-382: a bound of None or 0 is not applied
DimensionCondition(img, req) ==
    /\ req.min_width # 0 => img.width >= req.min_width
    /\ req.max_width # 0 => img.width <= req.max_width
    /\ req.min_height # 0 => img.height >= req.min_height
    /\ req.max_height # 0 => img.height <= req.max_height

\* lines 385-391: CAST(width AS FLOAT) / height against 1.0, 1.1 and 0.9 in
\* IEEE doubles.  x / y > 1.1 iff 10x > 11y and x / y < 0.9 iff 10x < 9y
\* (the quotient rounds to the double of 1.1 or 0.9 only when it equals it);
\* ABS(x / y - 1.0) < 0.1 holds strictly inside the band and also at
\* x / y = 0.9 exactly, where the double difference is 0.09999999999999998.
\* A zero height makes the quotient NULL and the row does not pass.  The
\* mutant takes the landscape threshold itself as landscape.
AspectConditionInclusive(img, aspect_ratio) ==
    IF aspect_ratio = "square"
    THEN /\ img.height # 0
         /\ 10 * img.width < 11 * img.height
         /\ 10 * img.width >= 9 * img.height
    ELSE IF aspect_ratio = "landscape"
    THEN img.height # 0 /\ 10 * img.width >= 11 * img.height
    ELSE IF aspect_ratio = "portrait"
    THEN img.height # 0 /\ 10 * img.width < 9 * img.height
    ELSE TRUE

AspectCondition(img, aspect_ratio) ==
    IF aspect_ratio = "square"
    THEN /\ img.height # 0
         /\ 10 * img.width < 11 * img.height
         /\ 10 * img.width >= 9 * img.height
    ELSE IF aspect_ratio = "landscape"
    THEN img.height # 0 /\ 10 * img.width > 11 * img.height
    ELSE IF aspect_ratio = "portrait"
    THEN img.height # 0 /\ 10 * img.width < 9 * img.height
    ELSE TRUE

\* the WHERE clause and the joins (lines 305-394)
CoarseMatch(img, tagrows, req) ==
    /\ JoinCount(img, tagrows, req.tags) > 0
    /\ req.generators # <<>> => img.generator \in Range(req.generators)
    /\ RatingCondition(img, tagrows, req.ratings)
    /\ req.checkpoints # <<>> => img.checkpoint \in Range(req.checkpoints)
    /\ LoraCoarseCondition(img, req.loras)
    /\ SearchCondition(img, req.search_query)
    /\ PromptCoarseCondition(img, req.prompt_terms)
    /\ DimensionCondition(img, req)
    /\ AspectCondition(img, req.aspect_ratio)

\* SELECT DISTINCT i.*: every image that yields a joined row, once
SelectDistinct(rows, tagrows, req) == {img \in rows : CoarseMatch(img, tagrows, req)}

(***************************************************************************)
(* get_images: ORDER BY, LIMIT / OFFSET, exact refinement, pagination      *)
(***************************************************************************)

\* the characters of the model's texts in code-point order (BINARY collation)
AsciiOrder ==
    <<"\t", "\n", "\r", " ", "!", "\"", "#", "$", "%", "&", "'", "(",
      ")", "*", "+", ",", "-", ".", "/", "0", "1", "2", "3", "4",
      "5", "6", "7", "8", "9", ":", ";", "<", "=", ">", "?", "@",
      "A", "B", "C", "D", "E", "F", "G", "H", "I", "J", "K", "L",
      "M", "N", "O", "P", "Q", "R", "S", "T", "U", "V", "W", "X",
      "Y", "Z", "[", "\\", "]", "^", "_", "a", "b", "c", "d",
      "e", "f", "g", "h", "i", "j", "k", "l", "m", "n", "o", "p",
      "q", "r", "s", "t", "u", "v", "w", "x", "y", "z", "{", "|",
      "}", "~">>

CharCode(c) == CHOOSE i \in 1..Len(AsciiOrder) : AsciiOrder[i] = c

\* a < b for TEXT values
RECURSIVE TextLess(_, _)
TextLess(a, b) ==
    IF b = <<>> THEN FALSE
    ELSE IF a = <<>> THEN TRUE
    ELSE IF Head(a) # Head(b) THEN CharCode(Head(a)) < CharCode(Head(b))
    ELSE TextLess(Tail(a), Tail(b))

\* LENGTH(COALESCE(prompt, ''))
PromptLength(img) == IF img.prompt = Null THEN 0 ELSE Len(img.prompt)

\* lines 279-297: the computed columns tag_count, char_count, rating_order
TagCount(img, tagrows) == Cardinality(TagsOf(tagrows, img.id))

CharCount(img, tagrows) ==
    Cardinality({t \in TagsOf(tagrows, img.id) : LikeContains(t.tag, t_character)})

RatingOrder(img, tagrows) ==
    LET has(r) == \E t \in TagsOf(tagrows, img.id) : t.tag = r
    IN  IF has(t_explicit) THEN 1
        ELSE IF has(t_questionable) THEN 2
        ELSE IF has(t_sensitive) THEN 3
        ELSE IF has(t_general) THEN 4
        ELSE 5

\* sort_options (lines 397-411): whether ORDER BY puts a strictly before b.
\* The mutant orders an unknown key by file name.
OrderBeforeUnknownByName(a, b, tagrows, sort_by) ==
    IF sort_by = "newest" THEN a.created_at > b.created_at
    ELSE IF sort_by = "oldest" THEN a.created_at < b.created_at
    ELSE IF sort_by = "name_asc" THEN TextLess(a.filename, b.filename)
    ELSE IF sort_by = "name_desc" THEN TextLess(b.filename, a.filename)
    ELSE IF sort_by = "generator"
         THEN \/ TextLess(a.generator, b.generator)
              \/ a.generator = b.generator /\ a.created_at > b.created_at
    ELSE IF sort_by = "prompt_length" THEN PromptLength(a) > PromptLength(b)
    ELSE IF sort_by = "tag_count" THEN TagCount(a, tagrows) > TagCount(b, tagrows)
    ELSE IF sort_by = "rating" THEN RatingOrder(a, tagrows) < RatingOrder(b, tagrows)
    ELSE IF sort_by = "character_count"
         THEN CharCount(a, tagrows) > CharCount(b, tagrows)
    ELSE IF sort_by = "random" THEN FALSE
    ELSE IF sort_by = "file_size" THEN a.file_size > b.file_size
    ELSE IF sort_by = "file_size_asc" THEN a.file_size < b.file_size
    ELSE TextLess(a.filename, b.filename)

OrderBefore(a, b, tagrows, sort_by) ==
    IF sort_by = "newest" THEN a.created_at > b.created_at
    ELSE IF sort_by = "oldest" THEN a.created_at < b.created_at
    ELSE IF sort_by = "name_asc" THEN TextLess(a.filename, b.filename)
    ELSE IF sort_by = "name_desc" THEN TextLess(b.filename, a.filename)
    ELSE IF sort_by = "generator"
         THEN \/ TextLess(a.generator, b.generator)
              \/ a.generator = b.generator /\ a.created_at > b.created_at
    ELSE IF sort_by = "prompt_length" THEN PromptLength(a) > PromptLength(b)
    ELSE IF sort_by = "tag_count" THEN TagCount(a, tagrows) > TagCount(b, tagrows)
    ELSE IF sort_by = "rating" THEN RatingOrder(a, tagrows) < RatingOrder(b, tagrows)
    ELSE IF sort_by = "character_count"
         THEN CharCount(a, tagrows) > CharCount(b, tagrows)
    ELSE IF sort_by = "random" THEN FALSE
    ELSE IF sort_by = "file_size" THEN a.file_size > b.file_size
    ELSE IF sort_by = "file_size_asc" THEN a.file_size < b.file_size
    ELSE a.created_at > b.created_at

\* the orders in which the query may return the set S of rows: rows that
\* ORDER BY does not separate come in any order
OrderedRows(S, tagrows, sort_by) ==
    LET n == Cardinality(S)
    IN  {f \in [1..n -> S] :
            /\ \A i, j \in 1..n : i # j => f[i] # f[j]
            /\ \A i, j \in 1..n : i < j => ~OrderBefore(f[j], f[i], tagrows, sort_by)}

Min(a, b) == IF a <= b THEN a ELSE b

\* list[a:b] for 0 <= a, 0 <= b
PySlice(list, a, b) == SubSeq(list, a + 1, Min(b, Len(list)))

\* line 415
needs_post_filter(req) == req.prompt_terms # <<>> \/ req.loras # <<>>

\* lines 417-422: LIMIT ? OFFSET ? on the fast path only.  The mutant
\* applies them to the coarse query of the refinement path too.
QueryWindowAlways(rows, req) == PySlice(rows, req.offset, req.offset + req.limit)

QueryWindow(rows, req) ==
    IF needs_post_filter(req) THEN rows
    ELSE PySlice(rows, req.offset, req.offset + req.limit)

\* lines 438-441: every requested term is a token of the prompt.  The
\* mutant asks for one of them only.
PromptRefineAny(img, prompt_terms) ==
    prompt_terms # <<>> =>
        \E i \in 1..Len(prompt_terms) :
            normalize_prompt_token(prompt_terms[i]) \in extract_prompt_tokens(img.prompt)

PromptRefine(img, prompt_terms) ==
    \A i \in 1..Len(prompt_terms) :
        normalize_prompt_token(prompt_terms[i]) \in extract_prompt_tokens(img.prompt)

\* lines 444-447: one of the requested LoRAs is a LoRA of the image.  The
\* mutant asks for all of them.
LoraRefineAll(img, loras) ==
    \A i \in 1..Len(loras) :
        normalize_lora_name(loras[i]) \in extract_lora_names(img.loras, img.prompt)

LoraRefine(img, loras) ==
    loras # <<>> =>
        \E i \in 1..Len(loras) :
            normalize_lora_name(loras[i]) \in extract_lora_names(img.loras, img.prompt)

\* lines 429-452: the post-filter and the slice
PostFilter(rows, req) ==
    LET filtered_results ==
            SelectSeq(rows, LAMBDA img : /\ PromptRefine(img, req.prompt_terms)
                                         /\ LoraRefine(img, req.loras))
    IN  IF req.limit # 0
        THEN PySlice(filtered_results, req.offset, req.offset + req.limit)
        ELSE PySlice(filtered_results, req.offset, Len(filtered_results))

(***************************************************************************)
(* GET /api/images (routers/images.py) and the two steps of get_images     *)
(***************************************************************************)

\* routers/images.py line 53: the limit passed on for "no limit"
no_limit == 999999

\* x.split(",") if x else None
SplitOrNone(x) == IF Falsy(x) THEN <<>> ELSE Split(x, ",")

\* the query parameters left at their defaults
ApiDefaults ==
    [generators |-> Null, tags |-> Null, ratings |-> Null, checkpoints |-> Null,
     loras |-> Null, search |-> Null, sort_by |-> "newest", limit |-> 0,
     offset |-> 0, min_width |-> 0, max_width |-> 0, min_height |-> 0,
     max_height |-> 0, prompts |-> Null, aspect_ratio |-> "None"]

\* lines 45-71: the arguments the endpoint passes to db.get_images
RouterArgs(api) ==
    [generators |-> SplitOrNone(api.generators),
     tags |-> SplitOrNone(api.tags),
     ratings |-> SplitOrNone(api.ratings),
     checkpoints |-> SplitOrNone(api.checkpoints),
     loras |-> SplitOrNone(api.loras),
     search_query |-> api.search,
     prompt_terms |-> SplitOrNone(api.prompts),
     sort_by |-> api.sort_by,
     limit |-> IF api.limit > 0 THEN api.limit ELSE no_limit,
     offset |-> api.offset,
     min_width |-> api.min_width, max_width |-> api.max_width,
     min_height |-> api.min_height, max_height |-> api.max_height,
     aspect_ratio |-> api.aspect_ratio]

NoRequest == [sort_by |-> "none"]

\* lines 275-426: the one SELECT of get_images, read from the committed
\* tables in a single statement
GetImagesQuery(api) ==
    /\ gi_pc = "idle"
    /\ LET req == RouterArgs(api)
       IN  \E rows \in OrderedRows(SelectDistinct(images, tags, req), tags, req.sort_by) :
               /\ gi_rows' = QueryWindow(rows, req)
               /\ gi_req' = req
    /\ gi_seen' = [images |-> images, tags |-> tags]
    /\ gi_pc' = "fetched"
    /\ last_op' = [op |-> "get_images_query"]
    /\ UNCHANGED <<store_vars, tag_job, scan_vars, gi_result, parsed, app_vars>>

\* lines 428-454: the post-filter over the fetched rows, and the return.  The
\* mutant refines the rows as the store holds them at the return.
GetImagesReturnRereading ==
    /\ gi_pc = "fetched"
    /\ LET held == SelectSeq(gi_rows, LAMBDA row : \E r \in images : r.id = row.id)
           reread == [i \in 1..Len(held) |-> CHOOSE r \in images : r.id = held[i].id]
       IN  gi_result' = IF needs_post_filter(gi_req) THEN PostFilter(reread, gi_req)
                        ELSE reread
    /\ gi_pc' = "done"
    /\ last_op' = [op |-> "get_images"]
    /\ UNCHANGED <<store_vars, tag_job, scan_vars, gi_req, gi_rows, gi_seen, parsed, app_vars>>

GetImagesReturn ==
    /\ gi_pc = "fetched"
    /\ gi_result' = IF needs_post_filter(gi_req) THEN PostFilter(gi_rows, gi_req)
                    ELSE gi_rows
    /\ gi_pc' = "done"
    /\ last_op' = [op |-> "get_images"]
    /\ UNCHANGED <<store_vars, tag_job, scan_vars, gi_req, gi_rows, gi_seen, parsed, app_vars>>

\* routers/images.py line 73: the endpoint answers with the list, and the
\* call is over
ApiRespond ==
    /\ gi_pc = "done"
    /\ gi_pc' = "idle"
    /\ gi_req' = NoRequest
    /\ gi_rows' = <<>>
    /\ gi_seen' = [images |-> {}, tags |-> {}]
    /\ gi_result' = <<>>
    /\ last_op' = [op |-> "respond"]
    /\ UNCHANGED <<store_vars, tag_job, scan_vars, parsed, app_vars>>

(***************************************************************************)
(* Store writes                                                            *)
(***************************************************************************)

\* bound: the ids AUTOINCREMENT hands out to image rows
MaxImageId == 3

\* add_image (lines 212-221): one INSERT OR REPLACE, committed when the
\* with-block ends.  d are the values scan_folder passes (image_manager.py
\* lines 81-94).
AddImage(d) ==
    /\ next_image_id <= MaxImageId
    /\ LET row == NewImageRow(d, next_image_id)
       IN  /\ images' = InsertOrReplace(images, row)
           /\ tags' = AfterImageDelete(tags, {r \in images : r.path = d.path})
    /\ next_image_id' = next_image_id + 1
    /\ last_op' = [op |-> "add_image", path |-> d.path, id |-> next_image_id,
                    values |-> d]
    /\ UNCHANGED <<next_tag_id, tag_job, gi_vars, scan_vars, parsed, app_vars>>

\* update_image_path (lines 515-523): the UPDATE fails on UNIQUE(path) when
\* another row holds new_path; the exception rolls the transaction back
UpdateImagePath(image_id, new_path) ==
    /\ \E r \in images : r.id = image_id
    /\ IF \E r \in images : r.path = new_path /\ r.id # image_id
       THEN UNCHANGED images
       ELSE images' = {IF r.id = image_id
                       THEN [r EXCEPT !.path = new_path, !.filename = Basename(new_path)]
                       ELSE r : r \in images}
    /\ last_op' = [op |-> "update_image_path", id |-> image_id, path |-> new_path]
    /\ UNCHANGED <<tags, next_image_id, next_tag_id, tag_job, gi_vars, scan_vars, parsed, app_vars>>

\* delete_image (lines 526-530)
DeleteImage(image_id) ==
    /\ \E r \in images : r.id = image_id
    /\ images' = {r \in images : r.id # image_id}
    /\ tags' = AfterImageDelete(tags, {r \in images : r.id = image_id})
    /\ last_op' = [op |-> "delete_image", id |-> image_id]
    /\ UNCHANGED <<next_image_id, next_tag_id, tag_job, gi_vars, scan_vars, parsed, app_vars>>

(***************************************************************************)
(* Texts of the filter scenarios                                           *)
(***************************************************************************)

\* "a/x"
p_ax == <<"a","/","x">>

\* "b/x"
p_bx == <<"b","/","x">>

\* "b/y"
p_by == <<"b","/","y">>

\* "webui"
t_webui == <<"w","e","b","u","i">>

\* "comfyui"
t_comfyui == <<"c","o","m","f","y","u","i">>

\* "cat, dog"
t_cat_dog == <<"c","a","t",","," ","d","o","g">>

\* "category"
t_category == <<"c","a","t","e","g","o","r","y">>

\* "ca<x>t"
t_ca_x_t == <<"c","a","<","x",">","t">>

\* "<lora:Abc:0.8>Cat_Dog, cat"
t_lora_prompt == <<"<","l","o","r","a",":","A","b","c",":","0",".","8",">","C","a","t","_","D","o","g",","," ","c","a","t">>

\* "abc"
t_abc == <<"a","b","c">>

\* "abcd"
t_abcd == <<"a","b","c","d">>

\* "xyz.safetensors"
t_xyz_file == <<"x","y","z",".","s","a","f","e","t","e","n","s","o","r","s">>

\* "{}"
t_blob_empty == <<"{","}">>

\* "{\"n\": \"abc\"}"
t_blob_abc == <<"{","\"","n","\"",":"," ","\"","a","b","c","\"","}">>

\* "cat"
t_cat == <<"c","a","t">>

\* "Cat,DOG"
t_Cat_DOG == <<"C","a","t",",","D","O","G">>

\* "xyz,ABC:0.8"
t_xyz_abc == <<"x","y","z",",","A","B","C",":","0",".","8">>

\* the values scan_folder passes to add_image for a file: the file name is
\* the base name of the path
ScanValues(path, generator, prompt, metadata_json, width, height, loras, created_at) ==
    [path |-> path, filename |-> Basename(path), generator |-> generator,
     prompt |-> prompt, metadata_json |-> metadata_json, width |-> width,
     height |-> height, file_size |-> width * height, checkpoint |-> Null,
     loras |-> loras, created_at |-> created_at]

\* the files of the filter scenarios; a/x is found with two contents
FilterFiles ==
    {ScanValues(p_ax, t_webui, t_cat_dog, t_blob_abc, 100, 100, <<>>, 3),
     ScanValues(p_ax, t_webui, t_lora_prompt, t_blob_empty, 100, 100, <<>>, 1),
     ScanValues(p_bx, t_webui, t_category, t_blob_empty, 100, 100, <<t_abc>>, 2),
     ScanValues(p_by, t_comfyui, t_ca_x_t, t_blob_empty, 100, 100,
                <<t_abcd, t_xyz_file>>, 2)}

\* the limit and offset parameters of the requests
Windows == {<<0, 0>>, <<1, 0>>, <<1, 1>>, <<2, 1>>}

\* the GET /api/images requests of the filter scenarios
FilterRequests ==
    {[ApiDefaults EXCEPT !.prompts = pr, !.loras = lo, !.sort_by = so,
                         !.limit = w[1], !.offset = w[2]] :
        pr \in {Null, t_cat, t_Cat_DOG}, lo \in {Null, t_abc, t_xyz_abc},
        so \in {"newest", "name_asc"}, w \in Windows}

\* bound: the scan jobs started in one run of the server
MaxScans == 2

\* routers/sorting.py line 56: the progress before the first scan
ScanProgressIdle ==
    [status |-> "idle", current |-> 0, total |-> 0, message |-> <<>>]

\* a run_scan task that was not started
NoScanJob == [pc |-> "none"]

\* routers/censor.py line 55: _censor_detector = None
NoDetector == [instance |-> 0, model_path |-> <<>>, session |-> FALSE]

\* routers/sorting.py lines 57-63
NoSortSession ==
    [active |-> FALSE, images |-> <<>>, current_index |-> 0, folders |-> <<>>,
     history |-> <<>>]

EmptyStore ==
    /\ censor_detector = NoDetector
    /\ sort_session = NoSortSession
    /\ disk = {}
    /\ scan_progress = ScanProgressIdle
    /\ scan_jobs = [j \in 1..MaxScans |-> NoScanJob]
    /\ images = {}
    /\ tags = {}
    /\ next_image_id = 1
    /\ next_tag_id = 1
    /\ tag_job = [status |-> "idle", pending |-> {}]
    /\ gi_pc = "idle"
    /\ gi_req = NoRequest
    /\ gi_rows = <<>>
    /\ gi_seen = [images |-> {}, tags |-> {}]
    /\ gi_result = <<>>
    /\ last_op = [op |-> "init"]

InitStore ==
    /\ EmptyStore
    /\ parsed = [op |-> "none"]

\* gallery requests served between the scans of a folder.  A scan runs while
\* no get_images call is between its query and its return: the call works on
\* the rows it fetched, so a write in between changes nothing it returns.
NextFilter ==
    \/ gi_pc = "idle" /\ \E d \in FilterFiles : AddImage(d)
    \/ \E api \in FilterRequests : GetImagesQuery(api)
    \/ GetImagesReturn
    \/ ApiRespond

SpecFilter == InitStore /\ [][NextFilter]_vars

(***************************************************************************)
(* Properties of get_images on the refinement path                         *)
(***************************************************************************)

\* every requested term, normalized, is a token of the image's prompt
HasAllPromptTerms(img, terms) ==
    \A t \in Range(terms) :
        normalize_prompt_token(t) \in extract_prompt_tokens(img.prompt)

\* one of the requested names, normalized, is a LoRA of the image
HasAnyLora(img, names) ==
    \E n \in Range(names) :
        normalize_lora_name(n) \in extract_lora_names(img.loras, img.prompt)

\* the exact criteria a request asks of a candidate
ExactMatch(img, req) ==
    /\ HasAllPromptTerms(img, req.prompt_terms)
    /\ req.loras # <<>> => HasAnyLora(img, req.loras)

\* a finished call with prompt terms or LoRA names, as the endpoint passes it
RefinedCall == gi_pc = "done" /\ needs_post_filter(gi_req)

\* C1: when prompt terms or LoRA names are given, the coarse query fetches
\* every candidate of the store in the requested order, and the call returns
\* positions [offset, offset + limit) of the candidates that pass the exact
\* refinement: pagination applies to the refined list, not to the coarse one.
C1_PaginationAfterRefinement ==
    RefinedCall =>
        /\ gi_rows \in OrderedRows(SelectDistinct(gi_seen.images, gi_seen.tags, gi_req),
                                   gi_seen.tags, gi_req.sort_by)
        /\ LET refined == SelectSeq(gi_rows, LAMBDA img : ExactMatch(img, gi_req))
           IN  gi_result = [i \in 1..(Min(gi_req.offset + gi_req.limit, Len(refined))
                                      - gi_req.offset) |-> refined[gi_req.offset + i]]

\* three coarse candidates, the first of them fails the refinement, and the
\* page of one row at offset 1 is the third row fetched
C1_Witness ==
    /\ RefinedCall
    /\ gi_req.limit = 1
    /\ gi_req.offset = 1
    /\ Len(gi_rows) = 3
    /\ ~ExactMatch(gi_rows[1], gi_req)
    /\ gi_result = <<gi_rows[3]>>

\* a finished call whose only criterion is prompt terms, with no page cut
PromptTermsOnlyCall ==
    /\ gi_pc = "done"
    /\ gi_req.prompt_terms # <<>>
    /\ gi_req.loras = <<>>
    /\ gi_req.limit = no_limit
    /\ gi_req.offset = 0

\* C2: with prompt terms as the only criterion, an image of the store is
\* returned if and only if every requested term, normalized, is one of the
\* tokens extract_prompt_tokens derives from its prompt.
C2_ExactTokenAnd ==
    PromptTermsOnlyCall =>
        Range(gi_result) = {img \in gi_seen.images :
                                HasAllPromptTerms(img, gi_req.prompt_terms)}

MaxTagId == 3

\* bound: the image ids handed out in the scenarios that write tags
MaxStoreImageId == 2

\* max(rating_probs, key=lambda x: x[1]): the first entry of the highest
\* confidence
BestRating(rating_probs) ==
    LET best == CHOOSE i \in 1..Len(rating_probs) :
                    /\ \A j \in 1..Len(rating_probs) :
                           rating_probs[j].confidence <= rating_probs[i].confidence
                    /\ \A j \in 1..(i - 1) :
                           rating_probs[j].confidence < rating_probs[i].confidence
    IN  rating_probs[best]

\* list.sort(key=confidence, reverse=True): stable, highest first
RECURSIVE SortByConfidence(_)
SortByConfidence(list) ==
    IF list = <<>> THEN <<>>
    ELSE LET top == CHOOSE i \in 1..Len(list) :
                        /\ \A j \in 1..Len(list) :
                               list[j].confidence <= list[i].confidence
                        /\ \A j \in 1..(i - 1) :
                               list[j].confidence < list[i].confidence
         IN  <<list[top]>> \o
             SortByConfidence(SubSeq(list, 1, top - 1) \o SubSeq(list, top + 1, Len(list)))

\* WD14Tagger.tag (tagger.py lines 404-447): result["all_tags"] for the
\* general and character tags over their thresholds and the confidences of
\* the rating outputs; of the ratings only the best one is added
all_tags(hits, rating_probs) ==
    SortByConfidence(hits \o (IF rating_probs # <<>>
                              THEN <<BestRating(rating_probs)>>
                              ELSE <<>>))

\* add_tags (database.py lines 224-243) on the committed tables
AddTags(image_id, taglist) ==
    /\ next_tag_id + Len(NonEmptyTags(taglist)) <= MaxTagId + 1
    /\ tags' = TagsAfterAdd(tags, image_id, taglist, next_tag_id)
    /\ next_tag_id' = next_tag_id + Len(NonEmptyTags(taglist))
    /\ images' = SetTaggedAt(images, image_id)
    /\ UNCHANGED next_image_id

\* run_tagging (routers/tags.py lines 396-414): the job starts unless one is
\* running, and fetches the rows it will tag: all of them (retag_all) or
\* those with tagged_at IS NULL
TagStart(retag_all) ==
    /\ tag_job.status # "running"
    /\ tag_job' = [status |-> "running",
                   pending |-> IF retag_all THEN {r.id : r \in images}
                               ELSE {r.id : r \in {u \in images : u.tagged_at = "NULL"}}]
    /\ last_op' = [op |-> "tag_start"]
    /\ UNCHANGED <<store_vars, gi_vars, scan_vars, parsed, app_vars>>

\* lines 419-428: the next fetched row whose file exists is tagged and the
\* result stored under the id that was fetched
TagImage(hits, rating_probs) ==
    /\ tag_job.status = "running"
    /\ \E id \in tag_job.pending :
        /\ AddTags(id, all_tags(hits, rating_probs))
        /\ tag_job' = [tag_job EXCEPT !.pending = @ \ {id}]
        /\ last_op' = [op |-> "add_tags", id |-> id,
                        tags |-> all_tags(hits, rating_probs),
                        deleted |-> Cardinality(TagsOf(tags, id))]
    /\ UNCHANGED <<gi_vars, scan_vars, parsed, app_vars>>

\* lines 425-430: the file is gone, or the tagger raised: the row is skipped
TagSkip ==
    /\ tag_job.status = "running"
    /\ \E id \in tag_job.pending :
        tag_job' = [tag_job EXCEPT !.pending = @ \ {id}]
    /\ last_op' = [op |-> "tag_skip"]
    /\ UNCHANGED <<store_vars, gi_vars, scan_vars, parsed, app_vars>>

\* lines 437-442
TagFinish ==
    /\ tag_job.status = "running"
    /\ tag_job.pending = {}
    /\ tag_job' = [tag_job EXCEPT !.status = "done"]
    /\ last_op' = [op |-> "tag_done"]
    /\ UNCHANGED <<store_vars, gi_vars, scan_vars, parsed, app_vars>>

\* import_tags (routers/tags.py lines 336-377), one entry of request.images
\* inside the transaction.  s holds the tables as the transaction sees them
\* and the writes made so far.  fetchone() takes one of the rows that match
\* path = ? OR filename = ?; the query has no ORDER BY.
ImportEntry(s, e, overwrite) ==
    LET found == {r \in s.images : r.path = e.path \/ r.filename = e.filename}
    IN  IF e.tags = <<>> \/ found = {} THEN {s}
        ELSE {IF row.tagged_at # "NULL" /\ ~overwrite THEN s
              ELSE [images |-> SetTaggedAt(s.images, row.id),
                    tags |-> (IF overwrite
                              THEN {t \in s.tags : t.image_id # row.id}
                              ELSE s.tags)
                             \cup InsertTagRows(row.id, e.tags, s.next_tag_id),
                    next_tag_id |-> s.next_tag_id + Len(NonEmptyTags(e.tags)),
                    written |-> Append(s.written, [id |-> row.id, tags |-> e.tags])]
              : row \in found}

\* the loop over request.images: the outcomes it can end in
RECURSIVE ImportEntries(_, _, _)
ImportEntries(S, entries, overwrite) ==
    IF entries = <<>> THEN S
    ELSE ImportEntries(UNION {ImportEntry(s, Head(entries), overwrite) : s \in S},
                       Tail(entries), overwrite)

\* POST /tags/import: the whole request is one transaction
ImportTags(request) ==
    /\ \E s \in ImportEntries({[images |-> images, tags |-> tags,
                                next_tag_id |-> next_tag_id, written |-> <<>>]},
                              request.images, request.overwrite) :
        /\ s.next_tag_id <= MaxTagId + 1
        /\ images' = s.images
        /\ tags' = s.tags
        /\ next_tag_id' = s.next_tag_id
        /\ last_op' = [op |-> "import_tags", written |-> s.written]
    /\ UNCHANGED <<next_image_id, tag_job, gi_vars, scan_vars, parsed, app_vars>>

RatingRows(tagrows, image_id) ==
    {t \in tagrows : t.image_id = image_id /\ t.tag \in all_ratings}

\* fix_rating_tags (routers/tags.py lines 511-560) and fix_db_ratings.py:
\* of the rating rows of an image the first by ORDER BY confidence DESC is
\* kept, the others are deleted; rows of equal confidence come in either
\* order.  The response counts the images that had more than one rating row.
\* The mutant keeps any one of the rating rows.
FixRatingTagsKeepAny ==
    /\ LET image_ids == {t.image_id : t \in {u \in tags : u.tag \in all_ratings}}
       IN  \E keep \in [image_ids -> tags] :
            /\ \A id \in image_ids : keep[id] \in RatingRows(tags, id)
            /\ tags' = {t \in tags : t.tag \in all_ratings => t = keep[t.image_id]}
            /\ last_op' = [op |-> "fix_rating_tags",
                           images_fixed |->
                               Cardinality({id \in image_ids :
                                               Cardinality(RatingRows(tags, id)) > 1})]
    /\ UNCHANGED <<images, next_image_id, next_tag_id, tag_job, gi_vars, scan_vars,
                   parsed, app_vars>>

FixRatingTags ==
    /\ LET image_ids == {t.image_id : t \in {u \in tags : u.tag \in all_ratings}}
       IN  \E keep \in [image_ids -> tags] :
            /\ \A id \in image_ids :
                /\ keep[id] \in RatingRows(tags, id)
                /\ \A t \in RatingRows(tags, id) : t.confidence <= keep[id].confidence
            /\ tags' = {t \in tags : t.tag \in all_ratings => t = keep[t.image_id]}
            /\ last_op' = [op |-> "fix_rating_tags",
                           images_fixed |->
                               Cardinality({id \in image_ids :
                                               Cardinality(RatingRows(tags, id)) > 1})]
    /\ UNCHANGED <<images, next_image_id, next_tag_id, tag_job, gi_vars, scan_vars,
                   parsed, app_vars>>

\* clear_gallery (routers/sorting.py lines 428-435)
ClearGallery ==
    /\ images' = {}
    /\ tags' = {}
    /\ last_op' = [op |-> "clear_gallery"]
    /\ UNCHANGED <<next_image_id, next_tag_id, tag_job, gi_vars, scan_vars, parsed, app_vars>>

(***************************************************************************)
(* The store under scans, moves, deletions, tagging, import and repair     *)
(***************************************************************************)

TagEntry(tag, confidence) == [tag |-> tag, confidence |-> confidence]

\* the rating outputs of the model, confidences in percent
RatingProbs(g, s, q, e) ==
    <<TagEntry(t_general, g), TagEntry(t_sensitive, s),
      TagEntry(t_questionable, q), TagEntry(t_explicit, e)>>

\* what the tagger finds in the files: nothing at all; a cat, rated general;
\* nothing over the threshold, rated explicit
TaggerOutputs ==
    {<< <<>>, <<>> >>,
     << <<TagEntry(t_cat, 90)>>, RatingProbs(80, 10, 5, 5) >>,
     << <<>>, RatingProbs(10, 10, 10, 70) >>}

\* the files the scans find
StoreFiles ==
    {ScanValues(p_ax, t_webui, t_cat, t_blob_empty, 100, 100, <<>>, 1),
     ScanValues(p_bx, t_webui, t_cat, t_blob_empty, 100, 100, <<>>, 2)}

\* "x"
t_x == <<"x">>

\* POST /tags/import bodies: an export that carries two ratings for a/x;
\* an entry without tags, one for a/x and one for b/x with an empty tag
\* string, overwriting
ImportRequests ==
    {[images |-> <<[path |-> p_ax, filename |-> t_x,
                    tags |-> <<TagEntry(t_general, 90), TagEntry(t_explicit, 95)>>]>>,
      overwrite |-> FALSE],
     [images |-> <<[path |-> p_ax, filename |-> t_x, tags |-> <<>>],
                   [path |-> p_ax, filename |-> t_x,
                    tags |-> <<TagEntry(t_general, 90)>>],
                   [path |-> p_bx, filename |-> t_x,
                    tags |-> <<TagEntry(t_cat, 50), TagEntry(<<>>, 50)>>]>>,
      overwrite |-> TRUE]}

\* "general"
r_general == t_general

\* "explicit,general"
r_explicit_general == t_explicit \o <<",">> \o t_general

\* "general,sensitive,questionable,explicit"
r_all == t_general \o <<",">> \o t_sensitive \o <<",">> \o t_questionable
         \o <<",">> \o t_explicit

\* the GET /api/images requests that filter by rating only
RatingRequests ==
    {[ApiDefaults EXCEPT !.ratings = r] : r \in {r_general, r_explicit_general, r_all}}

\* scans, deletions, tagging jobs, imports and repairs, with gallery requests
\* that filter by rating
Next ==
    \/ gi_pc = "idle" /\ next_image_id <= MaxStoreImageId
                       /\ \E d \in StoreFiles : AddImage(d)
    \/ gi_pc = "idle" /\ \E id \in 1..MaxStoreImageId : DeleteImage(id)
    \/ gi_pc = "idle" /\ \E retag_all \in BOOLEAN : TagStart(retag_all)
    \/ gi_pc = "idle" /\ \E o \in TaggerOutputs : TagImage(o[1], o[2])
    \/ gi_pc = "idle" /\ TagSkip
    \/ gi_pc = "idle" /\ TagFinish
    \/ gi_pc = "idle" /\ \E request \in ImportRequests : ImportTags(request)
    \/ gi_pc = "idle" /\ FixRatingTags
    \/ gi_pc = "idle" /\ ClearGallery
    \/ \E api \in RatingRequests : GetImagesQuery(api)
    \/ GetImagesReturn
    \/ ApiRespond

Spec == InitStore /\ [][Next]_vars

(***************************************************************************)
(* The image records under scans, moves and deletions                      *)
(***************************************************************************)

\* the files the scans find; a/x is found with two contents
PathFiles ==
    StoreFiles \cup {ScanValues(p_ax, t_comfyui, t_cat_dog, t_blob_abc, 100, 100, <<>>, 3)}

\* the paths images are moved to
MovePaths == {p_bx, p_by}

\* scans, moves and deletions, concurrent with gallery requests that list
\* every image
NextPaths ==
    \/ \E d \in PathFiles : AddImage(d)
    \/ \E id \in 1..MaxImageId, p \in MovePaths : UpdateImagePath(id, p)
    \/ \E id \in 1..MaxImageId : DeleteImage(id)
    \/ GetImagesQuery(ApiDefaults)
    \/ GetImagesReturn
    \/ ApiRespond

SpecPaths == InitStore /\ [][NextPaths]_vars

(***************************************************************************)
(* Properties of the store                                                 *)
(***************************************************************************)

\* a finished call that filters by rating only
RatingCall == gi_pc = "done" /\ gi_req.ratings # <<>>

HasTagIn(tagrows, img, names) ==
    \E t \in tagrows : t.image_id = img.id /\ t.tag \in names

HasNoTagRecords(tagrows, img) == ~\E t \in tagrows : t.image_id = img.id

\* C4: a request for the full rating set filters nothing; for any other
\* non-empty rating set R, in every reachable state of the store, an image
\* is returned if and only if it has a tag in R or it has no tag records at
\* all (a tagging pass that wrote no tags included).
C4_RatingOrNoTagRecords ==
    RatingCall =>
        Range(gi_result) =
            IF Range(gi_req.ratings) = all_ratings THEN gi_seen.images
            ELSE {img \in gi_seen.images :
                      \/ HasTagIn(gi_seen.tags, img, Range(gi_req.ratings))
                      \/ HasNoTagRecords(gi_seen.tags, img)}

\* C5: in every reachable state of the store each image has at most one tag
\* among general, sensitive, questionable and explicit.
C5_AtMostOneRating ==
    \A img \in images : Cardinality(RatingRows(tags, img.id)) <= 1

PathIsUnique(rows) == \A a, b \in rows : a.path = b.path => a = b

\* C6: no two image records share a path; after add_image the path has
\* exactly one record, the one with the new values; and the tables a
\* get_images query reads never hold two records of a path.  (add_image is
\* one statement in one transaction: the tables go from one record of the
\* path to one record of the path with no state in between.)
C6_PathUniqueUpsert ==
    /\ PathIsUnique(images)
    /\ last_op.op = "add_image" =>
           {r \in images : r.path = last_op.path}
               = {NewImageRow(last_op.values, last_op.id)}
    /\ PathIsUnique(gi_seen.images)

\* a request read the record of a path, and add_image has since replaced it
\* by a record with other values under a new id
C6_Witness ==
    /\ gi_pc = "fetched"
    /\ last_op.op = "add_image"
    /\ \E old \in gi_seen.images :
           /\ old.path = last_op.path
           /\ old.id # last_op.id
           /\ old.generator # last_op.values.generator
           /\ {r \in images : r.path = old.path}
                  = {NewImageRow(last_op.values, last_op.id)}

\* C7: in every reachable state every tag record's image_id is the id of an
\* image record (deleting or replacing an image record removes its tags).
C7_NoOrphanTags ==
    \A t \in tags : \E img \in images : img.id = t.image_id

\* the tag entries of a set of tag rows, in the order of the row ids
RECURSIVE StoredTags(_)
StoredTags(rows) ==
    IF rows = {} THEN <<>>
    ELSE LET first == CHOOSE t \in rows : \A u \in rows : t.id <= u.id
         IN  <<TagEntry(first.tag, first.confidence)>> \o StoredTags(rows \ {first})

\* a step has replaced the tags of image_id by the entries of taglist
Replaced(image_id, taglist) ==
    /\ StoredTags(TagsOf(tags', image_id)) = NonEmptyTags(taglist)
    /\ TagsOf(tags, image_id) \cap tags' = {}
    /\ \A r \in images' : r.id = image_id => r.tagged_at # "NULL"

\* C8: after add_tags(image_id, T), and after an import_tags request for
\* each image it wrote to (with the entry written last), the tag records of
\* the image are exactly the entries of T that have a non-empty tag string,
\* none of the earlier tag records of the image remains, and tagged_at is
\* not null.
C8_TaggingPassReplaces ==
    [][/\ last_op'.op = "add_tags" => Replaced(last_op'.id, last_op'.tags)
       /\ last_op'.op = "import_tags" =>
            LET written == last_op'.written
            IN  \A i \in 1..Len(written) :
                    (\A j \in (i + 1)..Len(written) : written[j].id # written[i].id)
                        => Replaced(written[i].id, written[i].tags)]_vars

\* the tagging job has stored a tag list over the image's earlier tags
C8_Witness ==
    /\ last_op.op = "add_tags"
    /\ last_op.deleted > 0
    /\ last_op.tags # <<>>
    /\ \E r \in images : r.id = last_op.id /\ r.tagged_at # "NULL"
    /\ StoredTags(TagsOf(tags, last_op.id)) = last_op.tags

(***************************************************************************)
(* Python values of the metadata mapping (metadata_parser.py)              *)
(***************************************************************************)

\* A value is tagged with its Python type: str holds its characters, int and
\* float the text of the number, list its items, dict its (key, value) pairs
\* in insertion order; None, True and False hold nothing.
PyStr(s) == [t |-> "str", v |-> s]

PyNum(kind, text) == [t |-> kind, v |-> text]

PyList(items) == [t |-> "list", v |-> items]

PyDict(pairs) == [t |-> "dict", v |-> pairs]

PyNone == [t |-> "None", v |-> <<>>]

PyTrue == [t |-> "True", v |-> <<>>]

PyFalse == [t |-> "False", v |-> <<>>]

\* bool(x)
Truthy(x) ==
    IF x.t \in {"str", "list", "dict"} THEN x.v # <<>>
    ELSE IF x.t = "int" THEN x.v \notin {<<"0">>, <<"-", "0">>}
    ELSE IF x.t = "float" THEN \E i \in 1..Len(x.v) : x.v[i] \in (Digits \ {"0"})
    ELSE x.t = "True"

\* the type test shared by values of one tag; values of other tags differ
SameValue(x, y) == x.t = y.t /\ x.v = y.v

\* d[key] = value on the pairs of a dict
DictSet(pairs, key, value) ==
    IF \E i \in 1..Len(pairs) : pairs[i][1] = key
    THEN [i \in 1..Len(pairs) |-> IF pairs[i][1] = key THEN <<key, value>> ELSE pairs[i]]
    ELSE Append(pairs, <<key, value>>)

\* `key in d` for a dict d
HasKey(d, key) == \E i \in 1..Len(d.v) : d.v[i][1] = key

\* d.get(key, default)
DictGet(d, key, default) ==
    IF HasKey(d, key)
    THEN d.v[CHOOSE i \in 1..Len(d.v) : d.v[i][1] = key][2]
    ELSE default

\* `text in x` for a str text: "yes", "no", or "TypeError" where x supports
\* no membership test
PyIn(text, x) ==
    IF x.t = "str" THEN (IF Contains(x.v, text) THEN "yes" ELSE "no")
    ELSE IF x.t = "list"
    THEN (IF \E i \in 1..Len(x.v) : SameValue(x.v[i], PyStr(text)) THEN "yes" ELSE "no")
    ELSE IF x.t = "dict" THEN (IF HasKey(x, text) THEN "yes" ELSE "no")
    ELSE "TypeError"

(***************************************************************************)
(* json.loads of a metadata text                                           *)
(***************************************************************************)

JsonFail == [ok |-> FALSE, value |-> PyNone, next |-> 0]

\* the index after the run of digits that starts at i (i itself when none)
DigitsEnd(text, i) ==
    LET stops == {k \in i..Len(text) : text[k] \notin Digits}
    IN  IF stops = {} THEN Len(text) + 1 ELSE CHOOSE k \in stops : \A j \in stops : k <= j

\* a number at i: -?(0|[1-9]\d*)(\.\d+)?([eE][+-]?\d+)?
JsonNumber(text, i) ==
    LET a == IF i <= Len(text) /\ text[i] = "-" THEN i + 1 ELSE i
        b == IF a <= Len(text) /\ text[a] = "0" THEN a + 1 ELSE DigitsEnd(text, a)
        c == IF b + 1 <= Len(text) /\ text[b] = "." /\ DigitsEnd(text, b + 1) > b + 1
             THEN DigitsEnd(text, b + 1) ELSE b
        s == IF c + 1 <= Len(text) /\ text[c] \in {"e", "E"} /\ text[c + 1] \in {"+", "-"}
             THEN c + 2 ELSE c + 1
        d == IF c <= Len(text) /\ text[c] \in {"e", "E"} /\ DigitsEnd(text, s) > s
             THEN DigitsEnd(text, s) ELSE c
    IN  IF b = a THEN JsonFail
        ELSE [ok |-> TRUE,
              value |-> PyNum(IF d = b THEN "int" ELSE "float", SubSeq(text, i, d - 1)),
              next |-> d]

RECURSIVE JsonValue(_, _), JsonMember(_, _), JsonMembers(_, _, _), JsonElements(_, _, _)

\* the value that starts at or after i: [ok, value, next]
JsonValue(text, i) ==
    LET a == SkipWs(text, i)
        b == SkipWs(text, a + 1)
    IN  IF a > Len(text) THEN JsonFail
        ELSE IF text[a] = "\""
        THEN With(JsonReadString(text, a + 1, <<>>), LAMBDA str :
                 IF str.ok
                 THEN [ok |-> TRUE, value |-> PyStr(str.value), next |-> str.next]
                 ELSE JsonFail)
        ELSE IF text[a] = "{"
        THEN IF b <= Len(text) /\ text[b] = "}"
             THEN [ok |-> TRUE, value |-> PyDict(<<>>), next |-> b + 1]
             ELSE JsonMembers(text, a + 1, <<>>)
        ELSE IF text[a] = "["
        THEN IF b <= Len(text) /\ text[b] = "]"
             THEN [ok |-> TRUE, value |-> PyList(<<>>), next |-> b + 1]
             ELSE JsonElements(text, a + 1, <<>>)
        ELSE IF MatchesAt(text, a, <<"n","u","l","l">>)
        THEN [ok |-> TRUE, value |-> PyNone, next |-> a + 4]
        ELSE IF MatchesAt(text, a, <<"t","r","u","e">>)
        THEN [ok |-> TRUE, value |-> PyTrue, next |-> a + 4]
        ELSE IF MatchesAt(text, a, <<"f","a","l","s","e">>)
        THEN [ok |-> TRUE, value |-> PyFalse, next |-> a + 5]
        ELSE JsonNumber(text, a)

\* one "key": value member at or after i: [ok, key, value, next], next being
\* the index of the first character after the value and its white space
JsonMember(text, i) ==
    LET a == SkipWs(text, i)
        key == JsonReadString(text, a + 1, <<>>)
        b == SkipWs(text, key.next)
        none == [ok |-> FALSE, key |-> <<>>, value |-> PyNone, next |-> 0]
    IN  IF a > Len(text) \/ text[a] # "\"" THEN none
        ELSE IF ~key.ok THEN none
        ELSE IF b > Len(text) \/ text[b] # ":" THEN none
        ELSE With(JsonValue(text, b + 1), LAMBDA val :
                 IF ~val.ok THEN none
                 ELSE [ok |-> TRUE, key |-> key.value, value |-> val.value,
                       next |-> SkipWs(text, val.next)])

\* the members of an object after its "{" or after a ","
JsonMembers(text, i, acc) ==
    With(JsonMember(text, i), LAMBDA m :
        IF ~m.ok \/ m.next > Len(text) THEN JsonFail
        ELSE IF text[m.next] = ","
        THEN JsonMembers(text, m.next + 1, DictSet(acc, m.key, m.value))
        ELSE IF text[m.next] = "}"
        THEN [ok |-> TRUE, value |-> PyDict(DictSet(acc, m.key, m.value)),
              next |-> m.next + 1]
        ELSE JsonFail)

\* the items of an array after its "[" or after a ","
JsonElements(text, i, acc) ==
    With(JsonValue(text, i), LAMBDA val :
        IF ~val.ok \/ SkipWs(text, val.next) > Len(text) THEN JsonFail
        ELSE IF text[SkipWs(text, val.next)] = ","
        THEN JsonElements(text, SkipWs(text, val.next) + 1, Append(acc, val.value))
        ELSE IF text[SkipWs(text, val.next)] = "]"
        THEN [ok |-> TRUE, value |-> PyList(Append(acc, val.value)),
              next |-> SkipWs(text, val.next) + 1]
        ELSE JsonFail)

\* json.loads(text): ok is FALSE where it raises JSONDecodeError
JsonDecode(text) ==
    With(JsonValue(text, 1), LAMBDA val :
        IF val.ok /\ SkipWs(text, val.next) > Len(text)
        THEN [ok |-> TRUE, value |-> val.value]
        ELSE [ok |-> FALSE, value |-> PyNone])

(***************************************************************************)
(* Texts the metadata parser looks for                                     *)
(***************************************************************************)

\* "CLIPTextEncode"
s_CLIPTextEncode == <<"C","L","I","P","T","e","x","t","E","n","c","o","d","e">>

\* "text"
s_text == <<"t","e","x","t">>

\* "CheckpointLoader"
s_CheckpointLoader == <<"C","h","e","c","k","p","o","i","n","t","L","o","a","d","e","r">>

\* "CheckPointLoaderSimple"
s_CheckPointLoaderSimple == <<"C","h","e","c","k","P","o","i","n","t","L","o","a","d","e","r","S","i","m","p","l","e">>

\* "ckpt_name"
s_ckpt_name == <<"c","k","p","t","_","n","a","m","e">>

\* "LoraLoader"
s_LoraLoader == <<"L","o","r","a","L","o","a","d","e","r">>

\* "lora_name"
s_lora_name == <<"l","o","r","a","_","n","a","m","e">>

\* "class_type"
s_class_type == <<"c","l","a","s","s","_","t","y","p","e">>

\* "inputs"
s_inputs == <<"i","n","p","u","t","s">>

\* "positive"
s_positive == <<"p","o","s","i","t","i","v","e">>

\* "negative"
s_negative == <<"n","e","g","a","t","i","v","e">>

\* "<lora:"
s_open_lora_colon == <<"<","l","o","r","a",":">>

\* "Model:"
s_Model_colon == <<"M","o","d","e","l",":">>

\* "Steps:"
s_Steps_colon == <<"S","t","e","p","s",":">>

\* "Negative prompt:"
s_Negative_prompt_colon == <<"N","e","g","a","t","i","v","e"," ","p","r","o","m","p","t",":">>

(***************************************************************************)
(* _extract_comfyui_data (metadata_parser.py lines 197-248)                *)
(***************************************************************************)

\* a str value as its characters; any other value as it is
TextOrValue(x) == IF x.t = "str" THEN x.v ELSE x

ComfyNothing ==
    [raised |-> FALSE, pos |-> Null, neg |-> Null, checkpoint |-> Null, loras |-> <<>>]

ComfyRaised == [ComfyNothing EXCEPT !.raised = TRUE]

\* lines 218-225: a CLIPTextEncode node gives its text to the positive list
\* when that is still empty, to the negative list otherwise
ComfyText(acc, class_type, inputs) ==
    IF PyIn(s_CLIPTextEncode, class_type) = "TypeError" THEN [acc EXCEPT !.raised = TRUE]
    ELSE IF PyIn(s_CLIPTextEncode, class_type) = "no" THEN acc
    ELSE IF inputs.t # "dict" THEN [acc EXCEPT !.raised = TRUE]
    ELSE LET text == DictGet(inputs, s_text, PyStr(<<>>))
         IN  IF ~(Truthy(text) /\ text.t = "str") THEN acc
             ELSE IF acc.positive = <<>>
             THEN [acc EXCEPT !.positive = Append(@, text.v)]
             ELSE [acc EXCEPT !.negative = Append(@, text.v)]

\* lines 228-231
ComfyCheckpoint(acc, class_type, inputs) ==
    IF acc.raised THEN acc
    ELSE IF ~(\/ PyIn(s_CheckpointLoader, class_type) = "yes"
              \/ SameValue(class_type, PyStr(s_CheckPointLoaderSimple)))
    THEN acc
    ELSE IF inputs.t # "dict" THEN [acc EXCEPT !.raised = TRUE]
    ELSE LET cp == DictGet(inputs, s_ckpt_name, PyStr(<<>>))
         IN  IF Truthy(cp) THEN [acc EXCEPT !.checkpoint = TextOrValue(cp)] ELSE acc

\* lines 234-237
ComfyLora(acc, class_type, inputs) ==
    IF acc.raised THEN acc
    ELSE IF PyIn(s_LoraLoader, class_type) # "yes" THEN acc
    ELSE IF inputs.t # "dict" THEN [acc EXCEPT !.raised = TRUE]
    ELSE LET lr == DictGet(inputs, s_lora_name, PyStr(<<>>))
         IN  IF Truthy(lr) THEN [acc EXCEPT !.loras = Append(@, TextOrValue(lr))] ELSE acc

\* lines 240-243: `key in inputs and isinstance(inputs[key], str)`; the
\* subscript raises TypeError on a str or a list
ComfyDirect(acc, inputs, key, positive) ==
    IF acc.raised THEN acc
    ELSE IF PyIn(key, inputs) = "TypeError" THEN [acc EXCEPT !.raised = TRUE]
    ELSE IF PyIn(key, inputs) = "no" THEN acc
    ELSE IF inputs.t # "dict" THEN [acc EXCEPT !.raised = TRUE]
    ELSE LET x == DictGet(inputs, key, PyNone)
         IN  IF x.t # "str" THEN acc
             ELSE IF positive THEN [acc EXCEPT !.positive = Append(@, x.v)]
             ELSE [acc EXCEPT !.negative = Append(@, x.v)]

\* lines 211-243: one node of the graph
ComfyNode(acc, node) ==
    IF node.t # "dict" THEN acc
    ELSE With(DictGet(node, s_class_type, PyStr(<<>>)), LAMBDA class_type :
         With(DictGet(node, s_inputs, PyDict(<<>>)), LAMBDA inputs :
         With(ComfyText(acc, class_type, inputs), LAMBDA a1 :
         With(ComfyCheckpoint(a1, class_type, inputs), LAMBDA a2 :
         With(ComfyLora(a2, class_type, inputs), LAMBDA a3 :
         With(ComfyDirect(a3, inputs, s_positive, TRUE), LAMBDA a4 :
             ComfyDirect(a4, inputs, s_negative, FALSE)))))))

\* the loop over prompt_data.items(), in the order of the dict
RECURSIVE ComfyNodes(_, _)
ComfyNodes(acc, pairs) ==
    IF pairs = <<>> \/ acc.raised THEN acc
    ELSE With(ComfyNode(acc, Head(pairs)[2]), LAMBDA next :
             ComfyNodes(next, Tail(pairs)))

\* _extract_comfyui_data: (pos_text, neg_text, checkpoint, loras), or raised
\* where an exception leaves the function
extract_comfyui_data(prompt_data) ==
    With(IF prompt_data.t = "dict" THEN [ok |-> TRUE, value |-> prompt_data]
         ELSE IF prompt_data.t = "str" THEN JsonDecode(prompt_data.v)
         ELSE [ok |-> TRUE, value |-> PyDict(<<>>)], LAMBDA data :
        IF ~data.ok THEN ComfyNothing
        ELSE IF data.value.t # "dict" THEN ComfyRaised
        ELSE With(ComfyNodes([raised |-> FALSE, positive |-> <<>>,
                              negative |-> <<>>, checkpoint |-> Null,
                              loras |-> <<>>], data.value.v), LAMBDA acc :
                 IF acc.raised THEN ComfyRaised
                 ELSE [raised |-> FALSE,
                       pos |-> IF acc.positive # <<>> THEN Join(acc.positive, <<" ">>)
                               ELSE Null,
                       neg |-> IF acc.negative # <<>> THEN Join(acc.negative, <<" ">>)
                               ELSE Null,
                       checkpoint |-> acc.checkpoint,
                       loras |-> acc.loras]))

(***************************************************************************)
(* _parse_webui_parameters (metadata_parser.py lines 250-303)              *)
(***************************************************************************)

\* r"<lora:([^:]+):[^>]+>" at i: [end, name], end = 0 when it does not
\* match at i
MatchWebuiLora(s, i) ==
    IF ~MatchesAt(s, i, s_open_lora_colon) THEN [end |-> 0, name |-> <<>>]
    ELSE LET c == Find(s, ":", i + 6)
             g == IF c = 0 THEN 0 ELSE Find(s, ">", c + 1)
         IN  IF c < i + 7 \/ g < c + 2 THEN [end |-> 0, name |-> <<>>]
             ELSE [end |-> g, name |-> SubSeq(s, i + 6, c - 1)]

\* re.findall of that pattern
RECURSIVE WebuiLoras(_, _)
WebuiLoras(s, i) ==
    LET hits == {k \in i..Len(s) : MatchWebuiLora(s, k).end > 0}
    IN  IF hits = {} THEN {}
        ELSE LET m == MatchWebuiLora(s, CHOOSE h \in hits : \A j \in hits : h <= j)
             IN  {m.name} \cup WebuiLoras(s, m.end + 1)

\* r"Model:\s*([^,]+)" at i: the group, or Null when it does not match at i.
\* When nothing but a comma or the end follows the white space, the group is
\* the last white-space character.
MatchModel(s, i) ==
    IF ~MatchesAt(s, i, s_Model_colon) THEN Null
    ELSE LET a == SkipWs(s, i + 6)
             stop == Find(s, ",", a)
             last == IF stop = 0 THEN Len(s) ELSE stop - 1
         IN  IF a <= Len(s) /\ s[a] # "," THEN SubSeq(s, a, last)
             ELSE IF a > i + 6 THEN <<s[a - 1]>>
             ELSE Null

\* re.search of that pattern: the group of the leftmost match, stripped
WebuiCheckpoint(s) ==
    LET hits == {i \in 1..Len(s) : MatchModel(s, i) # Null}
    IN  IF hits = {} THEN Null
        ELSE Strip(MatchModel(s, CHOOSE i \in hits : \A j \in hits : i <= j))

\* re.match(r"^Steps:\s*\d+", line)
IsStepsLine(line) ==
    /\ StartsWith(line, s_Steps_colon)
    /\ SkipWs(line, 7) <= Len(line)
    /\ line[SkipWs(line, 7)] \in Digits

IsNegativeLine(line) == StartsWith(line, s_Negative_prompt_colon)

\* the 0-based index of the first line that satisfies Test, -1 when none does
FirstLine(lines, Test(_)) ==
    LET hits == {i \in 1..Len(lines) : Test(lines[i])}
    IN  IF hits = {} THEN -1 ELSE (CHOOSE i \in hits : \A j \in hits : i <= j) - 1

\* str.replace(old, "")
Remove(s, old) ==
    ReSub(LAMBDA x, i : IF MatchesAt(x, i, old) THEN i + Len(old) - 1 ELSE 0, s)

\* lines 287-293
PositivePrompt(params, lines, neg_start, param_start) ==
    IF neg_start > 0
    THEN Strip(Join(SubSeq(lines, 1, neg_start), <<"\n">>))
    ELSE IF param_start > 0
    THEN Strip(Join(SubSeq(lines, 1, param_start), <<"\n">>))
    ELSE params

\* lines 295-301.  The mutant takes the negative lines up to the end of the
\* text whatever param_start is.
NegativePromptToEnd(lines, neg_start, param_start) ==
    IF neg_start >= 0
    THEN LET neg_lines == SubSeq(lines, neg_start + 1, Len(lines))
             first == Strip(Remove(neg_lines[1], s_Negative_prompt_colon))
         IN  Strip(Join(<<first>> \o Tail(neg_lines), <<"\n">>))
    ELSE Null

NegativePrompt(lines, neg_start, param_start) ==
    IF neg_start >= 0
    THEN LET neg_end == IF param_start > neg_start THEN param_start ELSE Len(lines)
             neg_lines == SubSeq(lines, neg_start + 1, neg_end)
             first == Strip(Remove(neg_lines[1], s_Negative_prompt_colon))
         IN  Strip(Join(<<first>> \o Tail(neg_lines), <<"\n">>))
    ELSE Null

\* _parse_webui_parameters on a str: (prompt, negative, checkpoint, loras);
\* list(set(lora_matches)) holds the names in no particular order
parse_webui_parameters(params) ==
    IF params = <<>>
    THEN [prompt |-> Null, negative |-> Null, checkpoint |-> Null, loras |-> {}]
    ELSE With(Split(params, "\n"), LAMBDA lines :
         With(FirstLine(lines, IsNegativeLine), LAMBDA neg_start :
         With(FirstLine(lines, IsStepsLine), LAMBDA param_start :
             [prompt |-> PositivePrompt(params, lines, neg_start, param_start),
              negative |-> NegativePrompt(lines, neg_start, param_start),
              checkpoint |-> WebuiCheckpoint(params),
              loras |-> WebuiLoras(params, 1)])))

(***************************************************************************)
(* Keys and keywords of the detection chain                                *)
(***************************************************************************)

\* "None"
s_None == <<"N","o","n","e">>

\* "True"
s_True == <<"T","r","u","e">>

\* "False"
s_False == <<"F","a","l","s","e">>

\* "prompt"
s_prompt == <<"p","r","o","m","p","t">>

\* "workflow"
s_workflow == <<"w","o","r","k","f","l","o","w">>

\* "Comment"
s_Comment == <<"C","o","m","m","e","n","t">>

\* "uc"
s_uc == <<"u","c">>

\* "Description"
s_Description == <<"D","e","s","c","r","i","p","t","i","o","n">>

\* "NovelAI"
s_NovelAI == <<"N","o","v","e","l","A","I">>

\* "nai"
s_nai == <<"n","a","i">>

\* "parameters"
s_parameters == <<"p","a","r","a","m","e","t","e","r","s">>

\* "forge"
s_forge == <<"f","o","r","g","e">>

\* "Forge"
s_Forge == <<"F","o","r","g","e">>

\* "UNICODE"
s_UNICODE == <<"U","N","I","C","O","D","E">>

\* "ASCII"
s_ASCII == <<"A","S","C","I","I">>

\* "Sampler:"
s_Sampler_colon == <<"S","a","m","p","l","e","r",":">>

\* "Software"
s_Software == <<"S","o","f","t","w","a","r","e">>

\* "novelai"
s_novelai == <<"n","o","v","e","l","a","i">>

\* "comfyui"
s_comfyui == <<"c","o","m","f","y","u","i">>

\* "Parameters"
s_Parameters == <<"P","a","r","a","m","e","t","e","r","s">>

\* "UserComment"
s_UserComment == <<"U","s","e","r","C","o","m","m","e","n","t">>

(***************************************************************************)
(* _detect_and_parse and parse (metadata_parser.py lines 24-195)           *)
(***************************************************************************)

\* the character "\0"
NUL == "NUL"

\* str(x) of a value that is a str, a number, None or a bool
PyToStr(x) ==
    CASE x.t \in {"str", "int", "float"} -> x.v
      [] x.t = "None" -> s_None
      [] x.t = "True" -> s_True
      [] x.t = "False" -> s_False

\* str.strip(chars)
StripChars(s, chars) ==
    LET keep == {i \in 1..Len(s) : s[i] \notin chars}
    IN  IF keep = {} THEN <<>>
        ELSE LET lo == CHOOSE i \in keep : \A j \in keep : i <= j
                 hi == CHOOSE i \in keep : \A j \in keep : j <= i
             IN  SubSeq(s, lo, hi)

\* a step of the chain that does not decide
NoMatch == [matched |-> FALSE]

\* a return of _detect_and_parse
Detected(generator, prompt, negative_prompt, checkpoint, loras) ==
    [matched |-> TRUE, raised |-> FALSE, generator |-> generator,
     prompt |-> prompt, negative_prompt |-> negative_prompt,
     checkpoint |-> checkpoint, loras |-> loras]

\* an exception that leaves _detect_and_parse
DetectRaised ==
    [matched |-> TRUE, raised |-> TRUE, generator |-> Null, prompt |-> Null,
     negative_prompt |-> Null, checkpoint |-> Null, loras |-> <<>>]

\* `if pos`
TruthyText(text) == text # Null /\ text # <<>>

\* lines 117-129: only json.JSONDecodeError is caught
DetectComfyuiPrompt(metadata) ==
    IF ~HasKey(metadata, s_prompt) THEN NoMatch
    ELSE With(DictGet(metadata, s_prompt, PyNone), LAMBDA held :
         With(IF held.t = "str" THEN JsonDecode(held.v)
              ELSE [ok |-> TRUE, value |-> held], LAMBDA data :
             IF ~data.ok \/ data.value.t # "dict" THEN NoMatch
             ELSE With(extract_comfyui_data(data.value), LAMBDA e :
                      IF e.raised THEN DetectRaised
                      ELSE IF TruthyText(e.pos) \/ HasKey(metadata, s_workflow)
                      THEN Detected("comfyui", e.pos, e.neg, e.checkpoint, e.loras)
                      ELSE NoMatch)))

\* lines 132-140: every exception gives comfyui without fields
DetectComfyuiWorkflow(metadata) ==
    IF ~HasKey(metadata, s_workflow) THEN NoMatch
    ELSE With(DictGet(metadata, s_workflow, PyNone), LAMBDA workflow :
         With(extract_comfyui_data(DictGet(metadata, s_prompt, PyDict(<<>>))), LAMBDA e :
             IF (workflow.t = "str" /\ ~JsonDecode(workflow.v).ok) \/ e.raised
             THEN Detected("comfyui", Null, Null, Null, <<>>)
             ELSE Detected("comfyui", e.pos, e.neg, e.checkpoint, e.loras)))

\* lines 143-154: `"prompt" in comment_data or "uc" in comment_data` is a
\* key test on a dict, a membership test on a list, a substring test on a str
\* and a TypeError on anything else; .get exists only on a dict
DetectNaiComment(metadata) ==
    IF ~HasKey(metadata, s_Comment) THEN NoMatch
    ELSE With(DictGet(metadata, s_Comment, PyNone), LAMBDA comment :
         With(IF comment.t = "str" THEN JsonDecode(comment.v)
              ELSE [ok |-> FALSE, value |-> PyNone], LAMBDA data :
             IF ~data.ok THEN NoMatch
             ELSE IF PyIn(s_prompt, data.value) = "TypeError" THEN DetectRaised
             ELSE IF PyIn(s_prompt, data.value) = "no" /\ PyIn(s_uc, data.value) = "no"
             THEN NoMatch
             ELSE IF data.value.t # "dict" THEN DetectRaised
             ELSE Detected("nai",
                           TextOrValue(DictGet(data.value, s_prompt, PyStr(<<>>))),
                           TextOrValue(DictGet(data.value, s_uc, PyStr(<<>>))),
                           Null, <<>>)))

\* lines 157-160
DetectNaiDescription(metadata) ==
    IF ~HasKey(metadata, s_Description) THEN NoMatch
    ELSE LET desc == DictGet(metadata, s_Description, PyNone)
         IN  IF \/ Contains(PyToStr(desc), s_NovelAI)
                \/ Contains(Lower(PyToStr(desc)), s_nai)
             THEN Detected("nai", TextOrValue(desc), Null, Null, <<>>)
             ELSE NoMatch

\* lines 163-172: a value that is no str raises, in re.findall or in .lower()
DetectParameters(metadata) ==
    IF ~HasKey(metadata, s_parameters) THEN NoMatch
    ELSE With(DictGet(metadata, s_parameters, PyNone), LAMBDA params :
             IF params.t # "str" THEN DetectRaised
             ELSE With(parse_webui_parameters(params.v), LAMBDA w :
                      Detected(IF \/ Contains(Lower(params.v), s_forge)
                                  \/ Contains(params.v, s_Forge)
                               THEN "forge" ELSE "webui",
                               w.prompt, w.negative, w.checkpoint, w.loras)))

\* lines 177-180: str(metadata[key]) without the EXIF prefix
OtherFieldText(value) ==
    LET params == PyToStr(value)
    IN  IF StartsWith(params, s_UNICODE) \/ StartsWith(params, s_ASCII)
        THEN StripChars(From(params, 8), {NUL, " "})
        ELSE params

\* lines 175-185: the loop over the other fields
RECURSIVE DetectOtherFields(_, _)
DetectOtherFields(metadata, keys) ==
    IF keys = <<>> THEN NoMatch
    ELSE IF ~HasKey(metadata, Head(keys)) THEN DetectOtherFields(metadata, Tail(keys))
    ELSE With(OtherFieldText(DictGet(metadata, Head(keys), PyNone)), LAMBDA params :
             IF Contains(params, s_Steps_colon) /\ Contains(params, s_Sampler_colon)
             THEN With(parse_webui_parameters(params), LAMBDA w :
                      Detected(IF Contains(Lower(params), s_forge) THEN "forge"
                               ELSE "webui",
                               w.prompt, w.negative, w.checkpoint, w.loras))
             ELSE DetectOtherFields(metadata, Tail(keys)))

\* lines 188-193
DetectSoftware(metadata) ==
    IF ~HasKey(metadata, s_Software) THEN NoMatch
    ELSE LET software == Lower(PyToStr(DictGet(metadata, s_Software, PyNone)))
         IN  IF Contains(software, s_novelai)
             THEN Detected("nai", Null, Null, Null, <<>>)
             ELSE IF Contains(software, s_comfyui)
             THEN Detected("comfyui", Null, Null, Null, <<>>)
             ELSE NoMatch

\* the steps of _detect_and_parse in the order of the code
DetectSteps(metadata) ==
    <<DetectComfyuiPrompt(metadata),
      DetectComfyuiWorkflow(metadata),
      DetectNaiComment(metadata),
      DetectNaiDescription(metadata),
      DetectParameters(metadata),
      DetectOtherFields(metadata, <<s_Parameters, s_Comment, s_UserComment,
                                    s_parameters>>),
      DetectSoftware(metadata)>>

\* _detect_and_parse: the return of the first step that returns, line 195
\* when none does
detect_and_parse(metadata) ==
    With(DetectSteps(metadata), LAMBDA steps :
        LET hits == {i \in 1..Len(steps) : steps[i].matched}
        IN  IF hits = {} THEN Detected("unknown", Null, Null, Null, <<>>)
            ELSE steps[CHOOSE i \in hits : \A j \in hits : i <= j])

\* parse, lines 41-87, for the metadata of the opened image: the fields of
\* the result that detection fills (an exception leaves the initial values)
parse(metadata) ==
    With(detect_and_parse(metadata), LAMBDA r :
        IF r.raised THEN Detected("unknown", Null, Null, Null, <<>>) ELSE r)

(***************************************************************************)
(* The metadata parser on the metadata of one image                        *)
(***************************************************************************)

\* the longest parameters text of the inputs, in lines
MaxLines == 3

\* a field that the metadata does not have
Absent == [t |-> "absent", v |-> <<>>]

Field(key, value) == IF value = Absent THEN <<>> ELSE <<<<key, value>>>>

\* a graph with two text encoders and a checkpoint loader
g_text ==
    <<"{","\"","1","\"",":"," ","{","\"","c","l","a","s","s","_","t","y","p","e","\"",":"," ","\"","C","L","I","P","T","e","x","t","E","n","c","o","d","e","\"",","," ","\"","i","n","p","u","t","s","\"",":"," ","{","\"","t","e","x","t","\"",":"," ","\"","a"," ","c","a","t","\"","}","}",","," ","\"","2","\"",":"," ","{","\"","c","l","a","s","s","_","t","y","p","e","\"",":"," ","\"","C","L","I","P","T","e","x","t","E","n","c","o","d","e","\"",","," ","\"","i","n","p","u","t","s","\"",":"," ","{","\"","t","e","x","t","\"",":"," ","\"","b","a","d","\"","}","}",","," ","\"","3","\"",":"," ","{","\"","c","l","a","s","s","_","t","y","p","e","\"",":"," ","\"","C","h","e","c","k","p","o","i","n","t","L","o","a","d","e","r","S","i","m","p","l","e","\"",","," ","\"","i","n","p","u","t","s","\"",":"," ","{","\"","c","k","p","t","_","n","a","m","e","\"",":"," ","\"","m","\"","}","}","}">>

\* a graph whose nodes hold no text
g_sampler ==
    <<"{","\"","3","\"",":"," ","{","\"","c","l","a","s","s","_","t","y","p","e","\"",":"," ","\"","K","S","a","m","p","l","e","r","\"",","," ","\"","i","n","p","u","t","s","\"",":"," ","{","\"","s","e","e","d","\"",":"," ","1",","," ","\"","p","o","s","i","t","i","v","e","\"",":"," ","[","\"","6","\"",","," ","0","]","}","}","}">>

\* a graph whose text encoder is not of the plain type
g_sdxl ==
    <<"{","\"","6","\"",":"," ","{","\"","c","l","a","s","s","_","t","y","p","e","\"",":"," ","\"","C","L","I","P","T","e","x","t","E","n","c","o","d","e","S","D","X","L","\"",","," ","\"","i","n","p","u","t","s","\"",":"," ","{","\"","t","e","x","t","_","g","\"",":"," ","\"","a"," ","c","a","t","\"","}","}","}">>

x_not_json == <<"n","o","t"," ","j","s","o","n">>

x_json_list == <<"[","1","]">>

x_nai_comment == <<"{","\"","p","r","o","m","p","t","\"",":"," ","\"","a"," ","c","a","t","\"",","," ","\"","u","c","\"",":"," ","\"","b","a","d","\"","}">>

x_plain == <<"p","l","a","i","n">>

x_number == <<"1","2","3">>

x_NovelAI == <<"N","o","v","e","l","A","I"," ","D","i","f","f","u","s","i","o","n">>

x_renaissance == <<"r","e","n","a","i","s","s","a","n","c","e"," ","a","r","t">>

x_ComfyUI == <<"C","o","m","f","y","U","I">>

l_a_cat == <<"a"," ","c","a","t">>

l_negative == <<"N","e","g","a","t","i","v","e"," ","p","r","o","m","p","t",":"," ","b","a","d">>

l_steps == <<"S","t","e","p","s",":"," ","2","0",","," ","S","a","m","p","l","e","r",":"," ","E","u","l","e","r">>

l_forge == <<"S","t","e","p","s",":"," ","2","0",","," ","S","a","m","p","l","e","r",":"," ","E","u","l","e","r",","," ","V","e","r","s","i","o","n",":"," ","F","o","r","g","e">>

PromptValues ==
    {Absent, PyStr(g_text), PyStr(g_sampler), PyStr(g_sdxl), PyStr(x_not_json),
     PyStr(x_json_list)}

WorkflowValues == {Absent, PyStr(<<"{", "}">>)}

CommentValues ==
    {Absent, PyStr(x_nai_comment), PyStr(x_plain), PyStr(x_number),
     PyStr(Join(<<l_a_cat, l_steps>>, <<"\n">>))}

DescriptionValues == {Absent, PyStr(x_NovelAI), PyStr(x_renaissance), PyStr(x_plain)}

ParametersValues ==
    {Absent, PyStr(Join(<<l_a_cat, l_negative, l_steps>>, <<"\n">>)),
     PyStr(Join(<<l_a_cat, l_forge>>, <<"\n">>))}

SoftwareValues == {Absent, PyStr(x_NovelAI), PyStr(x_ComfyUI)}

Metadatas ==
    {PyDict(Field(s_prompt, p) \o Field(s_workflow, w) \o Field(s_Comment, c)
            \o Field(s_Description, d) \o Field(s_parameters, a)
            \o Field(s_Software, s)) :
        p \in PromptValues, w \in WorkflowValues, c \in CommentValues,
        d \in DescriptionValues, a \in ParametersValues, s \in SoftwareValues}

ParamLines == {l_a_cat, l_negative, l_steps, <<>>}

RECURSIVE LineSeqs(_)
LineSeqs(n) ==
    IF n = 0 THEN {<<>>}
    ELSE LET shorter == LineSeqs(n - 1)
         IN  shorter \cup {Append(ls, l) : ls \in {x \in shorter : Len(x) = n - 1},
                                           l \in ParamLines}

\* the parameters texts of one to MaxLines lines
ParamTexts == {Join(ls, <<"\n">>) : ls \in LineSeqs(MaxLines) \ {<<>>}}

\* _detect_and_parse(metadata)
DetectAndParse ==
    /\ parsed.op = "metadata"
    /\ parsed' = [op |-> "detect_and_parse", metadata |-> parsed.metadata,
                  result |-> detect_and_parse(parsed.metadata)]
    /\ UNCHANGED <<store_vars, tag_job, gi_vars, scan_vars, last_op, app_vars>>

\* parse(image_path), for the metadata of the image
Parse ==
    /\ parsed.op = "metadata"
    /\ parsed' = [op |-> "parse", metadata |-> parsed.metadata,
                  result |-> parse(parsed.metadata)]
    /\ UNCHANGED <<store_vars, tag_job, gi_vars, scan_vars, last_op, app_vars>>

\* _parse_webui_parameters(params)
ParseWebuiParameters ==
    /\ parsed.op = "params"
    /\ parsed' = [op |-> "parse_webui_parameters", params |-> parsed.params,
                  result |-> parse_webui_parameters(parsed.params)]
    /\ UNCHANGED <<store_vars, tag_job, gi_vars, scan_vars, last_op, app_vars>>

InitParse ==
    /\ EmptyStore
    /\ parsed \in {[op |-> "metadata", metadata |-> m] : m \in Metadatas}
                  \cup {[op |-> "params", params |-> t] : t \in ParamTexts}

NextParse ==
    \/ DetectAndParse
    \/ Parse
    \/ ParseWebuiParameters

SpecParse == InitParse /\ [][NextParse]_vars

(***************************************************************************)
(* Properties of the metadata parser                                       *)
(***************************************************************************)

\* the `prompt` field holds a dict or a text that json.loads decodes to one
PromptGraph(metadata) ==
    /\ HasKey(metadata, s_prompt)
    /\ LET held == DictGet(metadata, s_prompt, PyNone)
       IN  \/ held.t = "dict"
           \/ held.t = "str" /\ JsonDecode(held.v).ok
                             /\ JsonDecode(held.v).value.t = "dict"

\* the generator of the first rule that holds, where rule 1 holds for every
\* `prompt` graph and for every `workflow` field and the later rules hold
\* where their steps of _detect_and_parse return
FirstRuleGenerator(metadata) ==
    IF PromptGraph(metadata) \/ HasKey(metadata, s_workflow) THEN "comfyui"
    ELSE LET steps == DetectSteps(metadata)
             hits == {i \in 3..Len(steps) : steps[i].matched}
         IN  IF hits = {} THEN "unknown"
             ELSE steps[CHOOSE i \in hits : \A j \in hits : i <= j].generator

\* C9: whenever _detect_and_parse returns, the generator is that of the first
\* detection rule, in the fixed order, whose condition holds; a metadata
\* whose `prompt` field holds or decodes to a node graph is comfyui whatever
\* its other fields are.
C9_FirstRuleDecides ==
    (parsed.op = "detect_and_parse" /\ ~parsed.result.raised)
        => parsed.result.generator = FirstRuleGenerator(parsed.metadata)

\* the lines before the first of the negative-start and the params-start
\* line, joined and stripped as the code does; the whole text when the text
\* has neither line
LinesBeforeFirstMarker(params) ==
    LET lines == Split(params, "\n")
        found == {FirstLine(lines, IsNegativeLine), FirstLine(lines, IsStepsLine)} \ {-1}
    IN  IF found = {} THEN params
        ELSE Strip(Join(SubSeq(lines, 1, CHOOSE i \in found : \A j \in found : i <= j),
                        <<"\n">>))

\* C10: for a parameters text that is not empty, the positive prompt that
\* _parse_webui_parameters returns is the lines before whichever of the
\* negative-start and the params-start line comes first, at every position
\* of the two lines, and the whole text when neither line is found.
C10_PromptBeforeFirstMarker ==
    (parsed.op = "parse_webui_parameters" /\ parsed.params # <<>>)
        => parsed.result.prompt = LinesBeforeFirstMarker(parsed.params)

\* the lines from the negative-start line up to the params-start line, or to
\* the end of the text when no params-start line follows; the label is cut
\* from the front of the first line, and the first line and the joined lines
\* are stripped as the code does
NegativeLines(params) ==
    LET lines == Split(params, "\n")
        neg == FirstLine(lines, IsNegativeLine)
        par == FirstLine(lines, IsStepsLine)
        chosen == SubSeq(lines, neg + 1, IF par > neg THEN par ELSE Len(lines))
    IN  Strip(Join(<<Strip(From(chosen[1], Len(s_Negative_prompt_colon) + 1))>>
                   \o Tail(chosen), <<"\n">>))

HasNegativeLine(params) == FirstLine(Split(params, "\n"), IsNegativeLine) >= 0

\* C11: for a parameters text that is not empty, the negative prompt that
\* _parse_webui_parameters returns is the lines from negative-start up to,
\* and not including, params-start, or up to the end of the text when no
\* params-start comes after it, without the "Negative prompt:" label of the
\* first line; it is None when the text has no negative-start line.
C11_NegativeLinesUpToParams ==
    (parsed.op = "parse_webui_parameters" /\ parsed.params # <<>>)
        => parsed.result.negative =
               IF HasNegativeLine(parsed.params) THEN NegativeLines(parsed.params)
               ELSE Null

\* a text whose negative lines end at the params-start line that follows
C11_Witness ==
    /\ parsed.op = "parse_webui_parameters"
    /\ parsed.params = Join(<<l_a_cat, l_negative, l_steps>>, <<"\n">>)
    /\ parsed.result.negative = <<"b", "a", "d">>

(***************************************************************************)
(* The normalizers applied to a text and to their own result               *)
(***************************************************************************)

\* the longest input of the normalizers, in pieces
MaxPieces == 3

\* what the inputs are made of
NamePieces ==
    {<<"a">>, <<"B">>, <<"_">>, <<" ">>, <<":">>, <<"1">>, <<".","p","t">>, <<".","C","K","P","T">>}

RECURSIVE PieceTexts(_)
PieceTexts(n) ==
    IF n = 0 THEN {<<>>}
    ELSE {t \o p : t \in PieceTexts(n - 1), p \in NamePieces \cup {<<>>}}

x_Lora_X_weight == <<"L","o","r","a","_","X",":","0",".","8">>

x_lora_x_file == <<"l","o","r","a","_","x",".","s","a","f","e","t","e","n","s","o","r","s">>

x_lora_x == <<"l","o","r","a","_","x">>

NormalizerInputs == PieceTexts(MaxPieces) \cup {x_Lora_X_weight, x_lora_x_file}

\* the normalizer named op, applied to x
Normalize(op, x) ==
    IF op = "normalize_prompt_token" THEN normalize_prompt_token(x)
    ELSE normalize_lora_name(x)

\* one call of normalize_prompt_token on the text the state holds; the caller
\* feeds the result back at most once
NormalizePromptToken ==
    /\ parsed.op = "normalize_prompt_token"
    /\ parsed.calls < 2
    /\ parsed' = [parsed EXCEPT !.before = parsed.value,
                                !.value = normalize_prompt_token(parsed.value),
                                !.calls = @ + 1]
    /\ UNCHANGED <<store_vars, tag_job, gi_vars, scan_vars, last_op, app_vars>>

\* one call of normalize_lora_name on the text the state holds
NormalizeLoraName ==
    /\ parsed.op = "normalize_lora_name"
    /\ parsed.calls < 2
    /\ parsed' = [parsed EXCEPT !.before = parsed.value,
                                !.value = normalize_lora_name(parsed.value),
                                !.calls = @ + 1]
    /\ UNCHANGED <<store_vars, tag_job, gi_vars, scan_vars, last_op, app_vars>>

InitNormalize ==
    /\ EmptyStore
    /\ parsed \in {[op |-> op, input |-> x, before |-> x, value |-> x, calls |-> 0] :
                      op \in {"normalize_prompt_token", "normalize_lora_name"},
                      x \in NormalizerInputs}

NextNormalize ==
    \/ NormalizePromptToken
    \/ NormalizeLoraName

SpecNormalize == InitNormalize /\ [][NextNormalize]_vars

\* C12: both normalizers are idempotent (a second call returns what the first
\* returned) and give one key for inputs that differ only in letter case, and
\* normalize_lora_name gives 'lora_x' for 'Lora_X:0.8' and for
\* 'lora_x.safetensors'.
C12_IdempotentCaseInsensitive ==
    parsed.op \in {"normalize_prompt_token", "normalize_lora_name"} =>
        /\ parsed.calls = 2 => parsed.value = parsed.before
        /\ parsed.calls = 1 => parsed.value = Normalize(parsed.op, Lower(parsed.input))
        /\ (/\ parsed.calls = 1
            /\ parsed.op = "normalize_lora_name"
            /\ parsed.input \in {x_Lora_X_weight, x_lora_x_file}) => parsed.value = x_lora_x

(***************************************************************************)
(* The libraries (routers/tags.py) and the analytics (main.py)             *)
(***************************************************************************)

\* r'<lora:([^:>]+)(?:[^>]*)?>' with re.IGNORECASE at i (routers/tags.py
\* line 262): [end, name], end = 0 when the pattern does not match at i.
\* Unlike the pattern of extract_lora_names, nothing has to follow the colon.
MatchLibraryLoraRef(s, i) ==
    IF ~MatchesAt(Lower(s), i, s_open_lora_colon)
    THEN [end |-> 0, name |-> <<>>]
    ELSE LET stops == {k \in (i + 6)..Len(s) : s[k] \in {":", ">"}}
             e == IF stops = {} THEN 0 ELSE CHOOSE k \in stops : \A j \in stops : k <= j
             j == IF e = 0 THEN 0 ELSE Find(s, ">", e)
         IN  IF e < i + 7 \/ j = 0 THEN [end |-> 0, name |-> <<>>]
             ELSE [end |-> j, name |-> SubSeq(s, i + 6, e - 1)]

\* re.findall of that pattern: the captured names, in order
RECURSIVE FindLibraryLoraRefs(_, _)
FindLibraryLoraRefs(s, i) ==
    LET hits == {k \in i..Len(s) : MatchLibraryLoraRef(s, k).end > 0}
    IN  IF hits = {} THEN <<>>
        ELSE LET m == MatchLibraryLoraRef(s, CHOOSE h \in hits : \A j \in hits : h <= j)
             IN  <<m.name>> \o FindLibraryLoraRefs(s, m.end + 1)

\* get_loras_library lines 232-237: the rows the library reads
LoraLibraryRows(rows) ==
    {r \in rows : \/ r.loras # Null /\ r.loras # <<"[", "]">> /\ r.loras # <<>>
                  \/ LikeContains(r.prompt, s_open_lora_colon)}

\* lines 243-268: image_loras, the normalized names of one row
LibraryLorasOf(row) ==
    LET decoded == IF Falsy(row.loras) THEN [ok |-> FALSE, value |-> <<>>]
                   ELSE json_loads(row.loras)
        fromJson == IF decoded.ok
                    THEN UNION {LoraKeyOf(decoded.value[i]) : i \in 1..Len(decoded.value)}
                    ELSE {}
        refs == IF Falsy(row.prompt) THEN <<>> ELSE FindLibraryLoraRefs(row.prompt, 1)
        fromPrompt == UNION {LoraKeyOf(refs[i]) : i \in 1..Len(refs)}
    IN  fromJson \cup fromPrompt

\* get_prompts_library lines 127-131 and 136-159: image_tokens of one row,
\* by the steps extract_prompt_tokens takes
LibraryTokensOf(row) ==
    IF Falsy(row.prompt) THEN {}
    ELSE LET pieces == Split(CleanPrompt(row.prompt), ",")
         IN  UNION {TokenOf(pieces[i]) : i \in 1..Len(pieces)}

\* sorted(counts.items(), key=count, reverse=True): the sort is stable, and
\* the order of the keys of equal count is the order in which the rows and
\* the per-image sets were iterated, which nothing fixes
RECURSIVE SortedByCount(_, _)
SortedByCount(keys, count) ==
    IF keys = {} THEN {<<>>}
    ELSE UNION {{<<[key |-> k, count |-> count[k]]>> \o rest :
                    rest \in SortedByCount(keys \ {k}, count)} :
                k \in {c \in keys : \A d \in keys : count[d] <= count[c]}}

\* the orders sorted() can give the entries of a count mapping
Listings(count) == SortedByCount(DOMAIN count, count)

\* the library limits of the scenarios; 500 is the default of both endpoints
LibraryLimits == {1, 500}

\* get_loras_library lines 239-271: lora_counts, each name once per image
LoraCounts(rows) ==
    [k \in UNION {LibraryLorasOf(r) : r \in rows} |->
        Cardinality({r \in rows : k \in LibraryLorasOf(r)})]

\* GET /api/loras/library (routers/tags.py lines 215-280)
GetLorasLibrary(limit) ==
    /\ \E sorted_loras \in With(LoraCounts(LoraLibraryRows(images)), Listings) :
           parsed' = [op |-> "get_loras_library",
                      listed |-> PySlice(sorted_loras, 0, limit),
                      total |-> Len(sorted_loras),
                      seen |-> images]
    /\ UNCHANGED <<store_vars, tag_job, gi_vars, scan_vars, last_op, app_vars>>

\* how often name is an element of the loras lists of the rows
RECURSIVE Occurrences(_, _)
Occurrences(rows, name) ==
    IF rows = {} THEN 0
    ELSE LET r == CHOOSE x \in rows : TRUE
             ls == json_loads(r.loras)
         IN  (IF ls.ok THEN Cardinality({i \in 1..Len(ls.value) : ls.value[i] = name})
              ELSE 0)
             + Occurrences(rows \ {r}, name)

\* get_analytics lines 645-655: lora_counts, by the stored names
AnalyticsLoraCounts(rows) ==
    [l \in UNION {LET ls == json_loads(r.loras)
                  IN  IF ls.ok THEN Range(ls.value) ELSE {} : r \in rows} |->
        Occurrences(rows, l)]

\* GET /api/analytics (main.py lines 629-669): the loras of the response;
\* the store of the scenarios has no checkpoints and no tags
GetAnalytics ==
    /\ \E sorted_loras \in
           With(AnalyticsLoraCounts({r \in images : r.loras # Null
                                                    /\ r.loras # <<"[", "]">>}),
                Listings) :
           parsed' = [op |-> "get_analytics",
                      listed |-> PySlice(sorted_loras, 0, 20),
                      total |-> Len(sorted_loras),
                      seen |-> images]
    /\ UNCHANGED <<store_vars, tag_job, gi_vars, scan_vars, last_op, app_vars>>

\* get_prompts_library lines 133-162: token_counts, each token once per image
TokenCounts(rows) ==
    [k \in UNION {LibraryTokensOf(r) : r \in rows} |->
        Cardinality({r \in rows : k \in LibraryTokensOf(r)})]

\* GET /api/prompts/library (routers/tags.py lines 112-172)
GetPromptsLibrary(limit) ==
    /\ \E sorted_tokens \in With(TokenCounts({r \in images : ~Falsy(r.prompt)}),
                                 Listings) :
           parsed' = [op |-> "get_prompts_library",
                      listed |-> PySlice(sorted_tokens, 0, limit),
                      total |-> Len(sorted_tokens),
                      seen |-> images]
    /\ UNCHANGED <<store_vars, tag_job, gi_vars, scan_vars, last_op, app_vars>>

\* the gallery filtered by an entry of the listing shown
FilterByListed ==
    \E i \in 1..(IF parsed.op \in {"get_loras_library", "get_analytics",
                                   "get_prompts_library"}
                 THEN Len(parsed.listed) ELSE 0) :
        IF parsed.op = "get_prompts_library"
        THEN GetImagesQuery([ApiDefaults EXCEPT !.prompts = parsed.listed[i].key])
        ELSE GetImagesQuery([ApiDefaults EXCEPT !.loras = parsed.listed[i].key])

t_Abc == <<"A","b","c">>

t_abc_pt_pt == <<"a","b","c",".","p","t",".","p","t">>

t_lora_between == <<"a"," ","<","l","o","r","a",":","A","b","c",":","1",">"," ","b",","," ","c","a","t">>

t_Cat_dog == <<"C","a","t",","," ","d","o","g">>

t_lora_no_weight == <<"c","a","t",","," ","<","l","o","r","a",":","x","y","z",":",">">>

\* the files of the library scenarios; a/x is found with two contents
LibraryFiles ==
    {ScanValues(p_ax, t_webui, t_lora_between, t_blob_empty, 100, 100, <<t_Abc>>, 1),
     ScanValues(p_ax, t_webui, t_lora_no_weight, t_blob_empty, 100, 100, <<>>, 2),
     ScanValues(p_bx, t_comfyui, t_Cat_dog, t_blob_empty, 100, 100, <<t_abc>>, 2),
     ScanValues(p_by, t_comfyui, t_cat, t_blob_empty, 100, 100, <<t_abc_pt_pt>>, 3)}

\* listings and gallery requests served between the scans of a folder
NextLibrary ==
    \/ gi_pc = "idle" /\ \E d \in LibraryFiles : AddImage(d)
    \/ \E limit \in LibraryLimits : GetLorasLibrary(limit)
    \/ GetAnalytics
    \/ \E limit \in LibraryLimits : GetPromptsLibrary(limit)
    \/ FilterByListed
    \/ GetImagesReturn
    \/ ApiRespond

SpecLibrary == InitStore /\ [][NextLibrary]_vars

\* a finished get_images call whose only criterion is the key of entry e of
\* the listing, on the store the listing was computed from
FilteredBy(e, criterion) ==
    /\ gi_pc = "done"
    /\ gi_seen.images = parsed.seen
    /\ gi_req.limit = no_limit /\ gi_req.offset = 0
    /\ IF criterion = "loras"
       THEN gi_req.loras = <<e.key>> /\ gi_req.prompt_terms = <<>>
       ELSE gi_req.prompt_terms = <<e.key>> /\ gi_req.loras = <<>>

\* the images a listing counted for the key k
CountedFor(k) ==
    IF parsed.op = "get_loras_library"
    THEN {r \in LoraLibraryRows(parsed.seen) : k \in LibraryLorasOf(r)}
    ELSE IF parsed.op = "get_analytics"
    THEN {r \in parsed.seen : r.loras # Null /\ k \in Range(json_loads(r.loras).value)}
    ELSE {r \in parsed.seen : k \in LibraryTokensOf(r)}

\* C13: for every LoRA key k that the library or the analytics lists with
\* count n, get_images(loras=[k]) with no other criterion and no limit
\* returns exactly n images, the images that were counted for k.
C13_LoraCountIsFilterResult ==
    parsed.op \in {"get_loras_library", "get_analytics"} =>
        \A i \in 1..Len(parsed.listed) :
            FilteredBy(parsed.listed[i], "loras") =>
                /\ Len(gi_result) = parsed.listed[i].count
                /\ Range(gi_result) = CountedFor(parsed.listed[i].key)

\* C14: for every token k that the prompt library lists with count n,
\* get_images(prompt_terms=[k]) with no other criterion and no limit returns
\* exactly n images, the images that were counted for k.
C14_PromptCountIsFilterResult ==
    parsed.op = "get_prompts_library" =>
        \A i \in 1..Len(parsed.listed) :
            FilteredBy(parsed.listed[i], "prompt_terms") =>
                /\ Len(gi_result) = parsed.listed[i].count
                /\ Range(gi_result) = CountedFor(parsed.listed[i].key)

(***************************************************************************)
(* The aspect-ratio criterion of get_images                                *)
(***************************************************************************)

\* the files of the aspect scenarios: 100x100, 111x100, 100x112, and the two
\* thresholds 110x100 and 90x100
AspectFiles ==
    {ScanValues(p_ax, t_webui, t_cat, t_blob_empty, 100, 100, <<>>, 1),
     ScanValues(p_bx, t_webui, t_cat, t_blob_empty, 111, 100, <<>>, 2),
     ScanValues(p_by, t_webui, t_cat, t_blob_empty, 100, 112, <<>>, 3),
     ScanValues(p_bx, t_webui, t_cat, t_blob_empty, 110, 100, <<>>, 4),
     ScanValues(p_ax, t_webui, t_cat, t_blob_empty, 90, 100, <<>>, 5)}

\* the GET /api/images requests of the aspect scenarios
AspectRequests ==
    {[ApiDefaults EXCEPT !.aspect_ratio = a, !.limit = l] :
        a \in {"None", "square", "landscape", "portrait", "wide"}, l \in {0, 2}}

NextAspect ==
    \/ gi_pc = "idle" /\ \E d \in AspectFiles : AddImage(d)
    \/ \E api \in AspectRequests : GetImagesQuery(api)
    \/ GetImagesReturn
    \/ ApiRespond

SpecAspect == InitStore /\ [][NextAspect]_vars

\* a finished call with an aspect class as its only criterion and no page cut
AspectCall ==
    /\ gi_pc = "done"
    /\ gi_req.aspect_ratio \in {"square", "landscape", "portrait"}
    /\ gi_req.limit = no_limit
    /\ gi_req.offset = 0

\* the images of the store the call read that are w wide and h high
OfSize(w, h) == {img \in gi_seen.images : img.width = w /\ img.height = h}

\* the images of that size are returned by the class c and by no other
ReturnedOnlyBy(c, w, h) ==
    \A img \in OfSize(w, h) : img \in Range(gi_result) <=> gi_req.aspect_ratio = c

\* C15 as stated: 100x100 is square, 111x100 is landscape, and 100x112 is
\* returned neither by aspect_ratio='landscape' nor by aspect_ratio='portrait'.
C15_UnclassifiedBand ==
    AspectCall =>
        /\ ReturnedOnlyBy("square", 100, 100)
        /\ ReturnedOnlyBy("landscape", 111, 100)
        /\ gi_req.aspect_ratio \in {"landscape", "portrait"} =>
               OfSize(100, 112) \cap Range(gi_result) = {}

\* C15, amended: 100x100 is square and 111x100 is landscape; 100x112 has
\* w/h = 0.892... < 0.9 and is portrait, returned by aspect_ratio='portrait'
\* and by no other class; the unclassified band is the threshold w/h = 1.1
\* itself: 110x100 is returned by no class.
C15_AspectClasses ==
    AspectCall =>
        /\ ReturnedOnlyBy("square", 100, 100)
        /\ ReturnedOnlyBy("landscape", 111, 100)
        /\ ReturnedOnlyBy("portrait", 100, 112)
        /\ OfSize(110, 100) \cap Range(gi_result) = {}

\* a portrait call on a store with a 100x100, a 100x112 and a 110x100 image
\* returns the 100x112 image alone
C15_Witness ==
    /\ AspectCall
    /\ gi_req.aspect_ratio = "portrait"
    /\ OfSize(100, 100) # {} /\ OfSize(100, 112) # {} /\ OfSize(110, 100) # {}
    /\ Range(gi_result) = OfSize(100, 112)

(***************************************************************************)
(* Scanning a folder (routers/sorting.py, image_manager.py)                *)
(***************************************************************************)

\* bound: the image files of a scanned folder
MaxFiles == 2

t_unknown == <<"u","n","k","n","o","w","n">>

\* the files of the scan scenarios.  An "image" opens and parses; an
\* "unreadable" file has a size and a modification time and Image.open
\* raises on it; a "vanished" file was listed and is gone at its turn, so
\* os.path.getsize and os.stat raise.
ScanFiles ==
    {[kind |-> "image",
      found |-> ScanValues(p_ax, t_webui, t_cat, t_blob_empty, 100, 100, <<>>, 1)],
     [kind |-> "unreadable",
      found |-> ScanValues(p_bx, t_webui, t_cat, t_blob_empty, 100, 100, <<>>, 2)],
     [kind |-> "vanished",
      found |-> ScanValues(p_by, t_webui, t_cat, t_blob_empty, 100, 100, <<>>, 3)]}

\* the listings folder.glob can give: up to n of the files, in any order
RECURSIVE Listings_of(_)
Listings_of(n) ==
    IF n = 0 THEN {<<>>}
    ELSE Listings_of(n - 1) \cup
         {l \o <<f>> : l \in {m \in Listings_of(n - 1) : Len(m) = n - 1},
                       f \in ScanFiles}

ScanFolders == {l \in Listings_of(MaxFiles) : \A i, j \in 1..Len(l) : l[i] = l[j] => i = j}

\* metadata_parser.parse (lines 41-87) as scan_folder uses it: every
\* exception is caught inside parse, which then returns the defaults it
\* began with, with the file size when os.path.getsize had succeeded
parse_image(file) ==
    IF file.kind = "image" THEN file.found
    ELSE [file.found EXCEPT !.generator = t_unknown, !.prompt = Null,
                            !.metadata_json = <<"{", "}">>, !.width = 0, !.height = 0,
                            !.file_size = IF file.kind = "vanished" THEN 0 ELSE @,
                            !.checkpoint = Null, !.loras = <<>>]

\* image_manager.py line 70: os.stat raises for a file that is gone
StatRaises(file) == file.kind = "vanished"

\* scan_folder lines 41-47
NewScanResult == [total |-> 0, new |-> 0, updated |-> 0, errors |-> 0, by_generator |-> <<>>]

\* lines 99-100: by_generator as a list of [generator, count] pairs
CountGenerator(by_generator, gen) ==
    IF \E i \in 1..Len(by_generator) : by_generator[i][1] = gen
    THEN [i \in 1..Len(by_generator) |->
            IF by_generator[i][1] = gen THEN <<gen, by_generator[i][2] + 1>>
            ELSE by_generator[i]]
    ELSE Append(by_generator, <<gen, 1>>)

\* POST /api/scan (routers/sorting.py lines 88-121): refused while the status
\* is "running"; otherwise run_scan is handed to the background tasks and
\* the request is answered.  The status changes only when run_scan begins.
StartScan(folder) ==
    /\ scan_progress.status # "running"
    /\ \E j \in 1..MaxScans :
        /\ scan_jobs[j].pc = "none"
        /\ \A k \in 1..(j - 1) : scan_jobs[k].pc # "none"
        /\ scan_jobs' = [scan_jobs EXCEPT ![j] = [pc |-> "queued", folder |-> folder]]
    /\ last_op' = [op |-> "start_scan"]
    /\ UNCHANGED <<store_vars, tag_job, gi_vars, parsed, scan_progress, app_vars>>

\* run_scan line 104
RunScanBegin(j) ==
    /\ scan_jobs[j].pc = "queued"
    /\ scan_progress' = [status |-> "running", current |-> 0, total |-> 0,
                         message |-> <<"Starting...">>]
    /\ scan_jobs' = [scan_jobs EXCEPT ![j].pc = "collect"]
    /\ UNCHANGED <<store_vars, tag_job, gi_vars, parsed, last_op, app_vars>>

\* scan_folder lines 41-58: the files are listed and counted
ScanCollect(j) ==
    /\ scan_jobs[j].pc = "collect"
    /\ scan_jobs' = [scan_jobs EXCEPT ![j] =
                        [pc |-> "loop", folder |-> scan_jobs[j].folder,
                         image_files |-> scan_jobs[j].folder, i |-> 0,
                         result |-> [NewScanResult EXCEPT
                                        !.total = Len(scan_jobs[j].folder)]]]
    /\ UNCHANGED <<store_vars, tag_job, gi_vars, parsed, last_op, scan_progress, app_vars>>

\* scan_folder lines 61-64 and progress_cb line 107: the first assignment of
\* the callback, made by the worker thread on the dictionary the progress
\* endpoint returns
ProgressCurrent(j) ==
    /\ scan_jobs[j].pc = "loop"
    /\ scan_jobs[j].i < Len(scan_jobs[j].image_files)
    /\ scan_progress' = [scan_progress EXCEPT !.current = scan_jobs[j].i + 1]
    /\ scan_jobs' = [scan_jobs EXCEPT ![j].pc = "cb_total"]
    /\ UNCHANGED <<store_vars, tag_job, gi_vars, parsed, last_op, app_vars>>

\* progress_cb line 108
ProgressTotal(j) ==
    /\ scan_jobs[j].pc = "cb_total"
    /\ scan_progress' = [scan_progress EXCEPT !.total = scan_jobs[j].result.total]
    /\ scan_jobs' = [scan_jobs EXCEPT ![j].pc = "cb_message"]
    /\ UNCHANGED <<store_vars, tag_job, gi_vars, parsed, last_op, app_vars>>

\* progress_cb line 109
ProgressMessage(j) ==
    /\ scan_jobs[j].pc = "cb_message"
    /\ scan_progress' =
           [scan_progress EXCEPT
               !.message = <<"Processing: ",
                             scan_jobs[j].image_files[scan_jobs[j].i + 1].found.filename>>]
    /\ scan_jobs' = [scan_jobs EXCEPT ![j].pc = "file"]
    /\ UNCHANGED <<store_vars, tag_job, gi_vars, parsed, last_op, app_vars>>

\* scan_folder lines 66-106, the rest of one iteration: the file is parsed
\* and stat-ed, and either os.stat raises and the error is counted, or
\* add_image writes the row and the file is counted as new
ScanFile(j) ==
    /\ scan_jobs[j].pc = "file"
    /\ LET job == scan_jobs[j]
           file == job.image_files[job.i + 1]
           metadata == parse_image(file)
       IN  IF StatRaises(file)
           THEN /\ scan_jobs' = [scan_jobs EXCEPT ![j].pc = "loop", ![j].i = @ + 1,
                                                  ![j].result.errors = @ + 1]
                /\ last_op' = [op |-> "scan_file", file |-> file, job |-> j,
                               added |-> FALSE]
                /\ UNCHANGED store_vars
           ELSE /\ next_image_id <= MaxImageId
                /\ images' = InsertOrReplace(images, NewImageRow(metadata, next_image_id))
                /\ tags' = AfterImageDelete(tags, {r \in images : r.path = metadata.path})
                /\ next_image_id' = next_image_id + 1
                /\ scan_jobs' =
                       [scan_jobs EXCEPT
                           ![j].pc = "loop", ![j].i = @ + 1,
                           ![j].result.new = @ + 1,
                           ![j].result.by_generator =
                               CountGenerator(@, metadata.generator)]
                /\ last_op' = [op |-> "scan_file", file |-> file, job |-> j,
                               added |-> TRUE]
                /\ UNCHANGED next_tag_id
    /\ UNCHANGED <<tag_job, gi_vars, parsed, scan_progress, app_vars>>

\* scan_folder line 108 and run_scan lines 112-118
RunScanDone(j) ==
    /\ scan_jobs[j].pc = "loop"
    /\ scan_jobs[j].i = Len(scan_jobs[j].image_files)
    /\ scan_progress' = [status |-> "done",
                         current |-> scan_jobs[j].result.total,
                         total |-> scan_jobs[j].result.total,
                         message |-> <<"Completed! ", scan_jobs[j].result.new>>,
                         result |-> scan_jobs[j].result]
    /\ scan_jobs' = [scan_jobs EXCEPT ![j].pc = "returned"]
    /\ UNCHANGED <<store_vars, tag_job, gi_vars, parsed, last_op, app_vars>>

\* GET /api/scan/progress (routers/sorting.py lines 124-127)
GetScanProgress ==
    /\ last_op' = [op |-> "get_scan_progress", response |-> scan_progress]
    /\ UNCHANGED <<store_vars, tag_job, gi_vars, parsed, scan_vars, app_vars>>

NextScan ==
    \/ \E folder \in ScanFolders : StartScan(folder)
    \/ \E j \in 1..MaxScans : RunScanBegin(j)
    \/ \E j \in 1..MaxScans : ScanCollect(j)
    \/ \E j \in 1..MaxScans : ProgressCurrent(j)
    \/ \E j \in 1..MaxScans : ProgressTotal(j)
    \/ \E j \in 1..MaxScans : ProgressMessage(j)
    \/ \E j \in 1..MaxScans : ScanFile(j)
    \/ \E j \in 1..MaxScans : RunScanDone(j)
    \/ GetScanProgress

SpecScan == InitStore /\ [][NextScan]_vars

\* the file a job is processing
CurrentFile(j) == scan_jobs[j].image_files[scan_jobs[j].i + 1]

\* job j ends the iteration of a file in this step
FileProcessed(j) == scan_jobs[j].pc = "file" /\ scan_jobs'[j].pc = "loop"

\* C16: a file whose extraction fails, a file that cannot be opened or read
\* included, is counted in `errors`, no image record is written for it, it
\* is not counted as new, and the scan goes on with the next file.
C16_FailedFileCountedAndSkipped ==
    [][\A j \in 1..MaxScans :
          FileProcessed(j) /\ CurrentFile(j).kind # "image" =>
              /\ scan_jobs'[j].result.errors = scan_jobs[j].result.errors + 1
              /\ scan_jobs'[j].result.new = scan_jobs[j].result.new
              /\ images' = images
              /\ scan_jobs'[j].i = scan_jobs[j].i + 1]_vars

\* how many times the status has become "running"
ScanRuns == Cardinality({j \in 1..MaxScans : scan_jobs[j].pc \notin {"none", "queued"}})

\* C20: between the status becoming running and becoming done, `current`
\* never decreases from one observation of the progress to the next, never
\* exceeds `total`, and equals `total` when the status is done.
C20_ProgressMonotone ==
    /\ [](scan_progress.status \in {"running", "done"} =>
              scan_progress.current <= scan_progress.total)
    /\ [](scan_progress.status = "done" => scan_progress.current = scan_progress.total)
    /\ [][scan_progress.status = "running" /\ ScanRuns' = ScanRuns =>
              scan_progress'.current >= scan_progress.current]_vars

\* the value of the field key is a string that is not valid JSON, or that
\* decodes to something other than an object
Unparsable(metadata, key) ==
    /\ HasKey(metadata, key)
    /\ LET held == DictGet(metadata, key, PyNone)
       IN  /\ held.t = "str"
           /\ \/ ~JsonDecode(held.v).ok
              \/ JsonDecode(held.v).value.t # "dict"

\* the return of the first step that returns when the step k is left out
ResultWithoutStep(metadata, k) ==
    LET steps == DetectSteps(metadata)
        hits == {i \in 1..Len(steps) : i # k /\ steps[i].matched}
    IN  IF hits = {} THEN Detected("unknown", Null, Null, Null, <<>>)
        ELSE steps[CHOOSE i \in hits : \A j \in hits : i <= j]

\* the step of _detect_and_parse that decodes the field: `prompt` is decoded
\* by the first step and `Comment` by the third
DecodingStep(key) == IF key = s_prompt THEN 1 ELSE 3

\* the step k is reached: no earlier step returns
StepReached(metadata, k) == \A i \in 1..(k - 1) : ~DetectSteps(metadata)[i].matched

\* C17: when the `prompt` or the `Comment` value is not valid JSON, or
\* decodes to something other than an object, _detect_and_parse does not
\* raise: the step that decodes the value, when it is reached, does not
\* match, and the result is that of the next matching step.
C17_UnparsableStepFallsThrough ==
    parsed.op = "detect_and_parse" =>
        \A key \in {s_prompt, s_Comment} :
            Unparsable(parsed.metadata, key) =>
                /\ ~parsed.result.raised
                /\ StepReached(parsed.metadata, DecodingStep(key)) =>
                       LET next == ResultWithoutStep(parsed.metadata, DecodingStep(key))
                       IN  /\ ~DetectSteps(parsed.metadata)[DecodingStep(key)].matched
                           /\ parsed.result.generator = next.generator
                           /\ parsed.result.prompt = next.prompt

(***************************************************************************)
(* The rating repair                                                       *)
(***************************************************************************)

\* the images that have tag rows
TaggedIds(tagrows) == {t.image_id : t \in tagrows}

\* C18: the rating repair leaves every image at most one rating tag, a rating
\* tag of maximal confidence among those the image had before; the
\* non-rating tags, and the tags of the images that had at most one rating
\* tag, are unchanged.
C18_RepairKeepsBestRating ==
    [][last_op'.op = "fix_rating_tags" =>
          /\ \A id \in TaggedIds(tags) :
                /\ Cardinality(RatingRows(tags', id)) <= 1
                /\ RatingRows(tags', id) \subseteq RatingRows(tags, id)
                /\ RatingRows(tags, id) # {} => RatingRows(tags', id) # {}
                /\ \A kept \in RatingRows(tags', id) :
                       \A t \in RatingRows(tags, id) : t.confidence <= kept.confidence
                /\ Cardinality(RatingRows(tags, id)) <= 1 =>
                       TagsOf(tags', id) = TagsOf(tags, id)
          /\ {t \in tags' : t.tag \notin all_ratings}
                 = {t \in tags : t.tag \notin all_ratings}]_vars

\* a repair that fixed an image: a/x, imported with general at 90 and
\* explicit at 95, is left with explicit alone
C18_Witness ==
    /\ last_op.op = "fix_rating_tags"
    /\ last_op.images_fixed = 1
    /\ \E r \in images :
           /\ r.path = p_ax
           /\ {t.tag : t \in TagsOf(tags, r.id)} = {t_explicit}
           /\ \A t \in TagsOf(tags, r.id) : t.confidence = 95

(***************************************************************************)
(* get_images under concurrent writers                                     *)
(***************************************************************************)

\* the files the concurrent scan finds: 'cat' as a whole token with a LoRA,
\* and 'cat' alone at the second path
ConcurrentFiles ==
    {ScanValues(p_ax, t_webui, t_cat_dog, t_blob_abc, 100, 100, <<>>, 3),
     ScanValues(p_bx, t_webui, t_cat, t_blob_empty, 100, 100, <<>>, 1)}

\* the tags a tagging job stores for one image
ConcurrentTags ==
    <<TagEntry(t_cat, 90), TagEntry(t_character, 85), TagEntry(t_general, 80)>>

\* the GET /api/images requests of the concurrent scenarios: a refined and
\* paginated one, a LoRA one, and one by rating
ConcurrentRequests ==
    {[ApiDefaults EXCEPT !.prompts = t_cat, !.limit = 1, !.offset = 1],
     [ApiDefaults EXCEPT !.loras = t_abc],
     [ApiDefaults EXCEPT !.ratings = r_general, !.sort_by = "name_asc"]}

\* database.add_tags called for a stored image by a tagging job
AddTagsCall(image_id, taglist) ==
    /\ \E r \in images : r.id = image_id
    /\ AddTags(image_id, taglist)
    /\ last_op' = [op |-> "add_tags", id |-> image_id, tags |-> taglist,
                    deleted |-> Cardinality(TagsOf(tags, image_id))]
    /\ UNCHANGED <<tag_job, gi_vars, scan_vars, parsed, app_vars>>

\* a scan, moves, deletions and a tagging job, none of them waiting for the
\* gallery request in progress
NextConcurrent ==
    \/ next_image_id <= MaxStoreImageId /\ \E d \in ConcurrentFiles : AddImage(d)
    \/ \E id \in 1..MaxStoreImageId : UpdateImagePath(id, p_by)
    \/ \E id \in 1..MaxStoreImageId : DeleteImage(id)
    \/ \E id \in 1..MaxStoreImageId : AddTagsCall(id, ConcurrentTags)
    \/ \E api \in ConcurrentRequests : GetImagesQuery(api)
    \/ GetImagesReturn
    \/ ApiRespond

SpecConcurrent == InitStore /\ [][NextConcurrent]_vars

\* the whole request evaluated on the ordered candidates of one store state
WholeRequest(rows, req) ==
    IF needs_post_filter(req) THEN PostFilter(rows, req)
    ELSE PySlice(rows, req.offset, req.offset + req.limit)

\* C19: whatever add_image, add_tags, update_image_path and delete_image
\* calls interleave with a get_images call, the list it returns is the whole
\* request (coarse query, refinement, pagination) evaluated on the store as
\* it was at the call's one coarse query.
C19_SnapshotConsistent ==
    gi_pc = "done" =>
        \E rows \in OrderedRows(SelectDistinct(gi_seen.images, gi_seen.tags, gi_req),
                                gi_seen.tags, gi_req.sort_by) :
            gi_result = WholeRequest(rows, gi_req)

\* a refined call returns a row that a write, landed between its query and
\* its return, has since removed or changed
C19_Witness ==
    /\ gi_pc = "done"
    /\ last_op.op = "get_images"
    /\ needs_post_filter(gi_req)
    /\ gi_seen.images # images
    /\ \E img \in Range(gi_result) : img \notin images

(***************************************************************************)
(* get_images with options it does not know                                *)
(***************************************************************************)

\* the keys of sort_options (database.py lines 397-410)
SortKeys ==
    {"newest", "oldest", "name_asc", "name_desc", "generator", "prompt_length",
     "tag_count", "rating", "character_count", "random", "file_size",
     "file_size_asc"}

\* the values of aspect_ratio that add a condition (lines 386-391)
AspectClasses == {"square", "landscape", "portrait"}

\* three files whose order by date differs from their order by name
OptionFiles ==
    {ScanValues(p_ax, t_webui, t_cat, t_blob_empty, 100, 100, <<>>, 1),
     ScanValues(p_by, t_webui, t_cat, t_blob_empty, 100, 112, <<>>, 2),
     ScanValues(p_bx, t_webui, t_cat, t_blob_empty, 111, 100, <<>>, 3)}

\* the GET /api/images requests of the option scenarios
OptionRequests ==
    {[ApiDefaults EXCEPT !.sort_by = s, !.aspect_ratio = a, !.limit = l] :
        s \in {"newest", "name_asc", "bogus", ""},
        a \in {"None", "square", "wide"},
        l \in {0, 2}}

NextOptions ==
    \/ gi_pc = "idle" /\ \E d \in OptionFiles : AddImage(d)
    \/ \E api \in OptionRequests : GetImagesQuery(api)
    \/ GetImagesReturn
    \/ ApiRespond

SpecOptions == InitStore /\ [][NextOptions]_vars

\* the request with its unknown options replaced by what the claim has
\* them stand for
KnownOptions(req) ==
    [req EXCEPT !.sort_by = IF @ \in SortKeys THEN @ ELSE "newest",
                !.aspect_ratio = IF @ \in AspectClasses THEN @ ELSE "None"]

\* C21: a get_images call with a sort_by that is no sort key returns what
\* the same call returns with sort_by 'newest', in the same order, and a
\* call with an aspect_ratio that is none of square, landscape, portrait
\* returns what the same call returns without aspect_ratio; no call raises.
C21_UnknownOptionsFallBack ==
    gi_pc = "done" =>
        \E rows \in OrderedRows(SelectDistinct(gi_seen.images, gi_seen.tags,
                                               KnownOptions(gi_req)),
                                gi_seen.tags, KnownOptions(gi_req).sort_by) :
            gi_result = WholeRequest(rows, KnownOptions(gi_req))

\* a call with an unknown sort key and an unknown aspect ratio returns all
\* three images, newest first, which is not their order by name
C21_Witness ==
    /\ gi_pc = "done"
    /\ gi_req.sort_by = "bogus"
    /\ gi_req.aspect_ratio = "wide"
    /\ Len(gi_result) = 3
    /\ gi_result[1].created_at > gi_result[2].created_at
    /\ gi_result[2].created_at > gi_result[3].created_at
    /\ TextLess(gi_result[3].filename, gi_result[2].filename)

(***************************************************************************)
(* POST /api/censor/detect: the cached detector (routers/censor.py)        *)
(***************************************************************************)

MaxDetectors == 4

m_a_onnx == <<"a",".","o","n","n","x">>

m_b_onnx == <<"b",".","o","n","n","x">>

m_c_pt == <<"c",".","p","t">>

m_c_onnx == <<"c",".","o","n","n","x">>

m_d_pth == <<"d",".","P","T","H">>

m_z_onnx == <<"z",".","o","n","n","x">>

\* the model files on disk; z.onnx is not an ONNX model
ModelFilesOnDisk == {m_a_onnx, m_b_onnx, m_c_pt, m_c_onnx, m_d_pth, m_z_onnx}

\* the files ort.InferenceSession accepts
ValidOnnx == {m_a_onnx, m_b_onnx, m_c_onnx}

\* os.path.splitext(path)[0] + ".onnx", for a path without directories
OnnxPathOf(path) ==
    (IF RFind(path, ".") > 1 THEN SubSeq(path, 1, RFind(path, ".") - 1) ELSE path)
    \o <<".","o","n","n","x">>

\* CensorDetector(model_path), censor.py lines 30-34
NewDetector(instance, model_path) ==
    [instance |-> instance, model_path |-> model_path, session |-> FALSE]

\* CensorDetector.load (censor.py lines 36-134) on a new detector: the
\* detectors it may leave, each with whether load raised.  `exported` is
\* whether the ultralytics export is available and succeeds.
Load(d, exported) ==
    LET lower == Lower(d.model_path)
        is_pt == EndsWith(lower, <<".","p","t">>) \/ EndsWith(lower, <<".","p","t","h">>)
        base_path == OnnxPathOf(d.model_path)
        converted == IF ~is_pt THEN [raised |-> FALSE, path |-> d.model_path]
                     ELSE IF base_path \in ModelFilesOnDisk
                     THEN [raised |-> FALSE, path |-> base_path]
                     ELSE IF exported THEN [raised |-> FALSE, path |-> base_path]
                     ELSE [raised |-> TRUE, path |-> d.model_path]
    IN  IF d.model_path \notin ModelFilesOnDisk THEN [raised |-> TRUE, detector |-> d]
        ELSE IF converted.raised THEN [raised |-> TRUE, detector |-> d]
        ELSE IF converted.path \in ValidOnnx
                \/ (is_pt /\ converted.path \notin ModelFilesOnDisk)
        THEN [raised |-> FALSE,
              detector |-> [d EXCEPT !.model_path = converted.path, !.session = TRUE]]
        ELSE [raised |-> TRUE,
              detector |-> [d EXCEPT !.model_path = converted.path, !.session = FALSE]]

\* lines 83-84: the test that decides for a new detector
MustLoad(model_path) ==
    \/ censor_detector.instance = 0
    \/ censor_detector.model_path # model_path
    \/ ~censor_detector.session

\* censor_detect (lines 59-108) for a request whose image exists; the
\* request is answered 400 before the detector is looked at when the model
\* path is no file with an allowed extension
CensorDetect(model_path, exported) ==
    /\ model_path \in ModelFilesOnDisk
    /\ IF MustLoad(model_path)
       THEN /\ censor_detector.instance < MaxDetectors
            /\ LET loaded == Load(NewDetector(censor_detector.instance + 1, model_path),
                                  exported)
               IN  /\ censor_detector' = loaded.detector
                   /\ last_op' = [op |-> "censor_detect", model_path |-> model_path,
                                   before |-> censor_detector, loaded |-> TRUE,
                                   status |-> IF loaded.raised THEN 500 ELSE 200]
       ELSE /\ UNCHANGED censor_detector
            /\ last_op' = [op |-> "censor_detect", model_path |-> model_path,
                            before |-> censor_detector, loaded |-> FALSE,
                            status |-> 200]
    /\ UNCHANGED <<store_vars, tag_job, gi_vars, scan_vars, parsed, sort_session, disk>>

NextCensor ==
    \E model_path \in ModelFilesOnDisk, exported \in BOOLEAN :
        CensorDetect(model_path, exported)

SpecCensor == InitStore /\ [][NextCensor]_vars

\* C22: a censor detect request reuses the cached detector, without loading,
\* exactly when one exists whose model_path is the requested path and whose
\* session is not None, and otherwise creates and loads a detector for the
\* requested path; so two requests in a row with the same model path use
\* the same detector, and after every request the cached detector has a
\* session.
C22_DetectorReusedIffLoaded ==
    [][last_op'.op = "censor_detect" =>
          /\ ~last_op'.loaded <=>
                 /\ censor_detector.instance # 0
                 /\ censor_detector.model_path = last_op'.model_path
                 /\ censor_detector.session
          /\ ~last_op'.loaded => censor_detector' = censor_detector
          /\ last_op'.loaded => censor_detector'.instance # censor_detector.instance
          /\ (last_op.op = "censor_detect" /\ last_op.model_path = last_op'.model_path)
                 => censor_detector'.instance = censor_detector.instance
          /\ censor_detector'.session]_vars

(***************************************************************************)
(* _extract_comfyui_data over node graphs in every node order              *)
(***************************************************************************)

MaxNodes == 3

\* {"class_type": class_type, "inputs": {key: value, ...}}
GraphNode(class_type, inputs) ==
    PyDict(<< <<s_class_type, PyStr(class_type)>>, <<s_inputs, PyDict(inputs)>> >>)

n_cat == GraphNode(s_CLIPTextEncode, << <<s_text, PyStr(<<"a"," ","c","a","t">>)>> >>)

n_bad == GraphNode(s_CLIPTextEncode, << <<s_text, PyStr(<<"b","a","d">>)>> >>)

n_empty == GraphNode(s_CLIPTextEncode, << <<s_text, PyStr(<<>>)>> >>)

\* a sampler whose prompts are given as strings
n_direct ==
    GraphNode(<<"K","S","a","m","p","l","e","r">>, << <<s_positive, PyStr(<<"s","u","n">>)>>,
                                 <<s_negative, PyStr(<<"f","o","g">>)>> >>)

\* a sampler whose prompts are links to other nodes
n_linked ==
    GraphNode(<<"K","S","a","m","p","l","e","r">>,
              << <<s_positive, PyList(<<PyStr(<<"6">>), PyNum("int", <<"0">>)>>)>>,
                 <<s_negative, PyList(<<PyStr(<<"7">>), PyNum("int", <<"0">>)>>)>> >>)

GraphNodes == {n_cat, n_bad, n_empty, n_direct, n_linked}

\* the sequences of one to n different nodes
RECURSIVE NodeSeqs(_)
NodeSeqs(n) ==
    IF n = 0 THEN {<<>>}
    ELSE LET shorter == NodeSeqs(n - 1)
         IN  shorter \cup {Append(ns, node) : ns \in {x \in shorter : Len(x) = n - 1},
                                              node \in GraphNodes}

\* the graph that holds the nodes under the ids "1", "2", ... in this order
NodeIds == <<"1", "2", "3", "4", "5">>

GraphOf(nodes) == PyDict([i \in 1..Len(nodes) |-> << <<NodeIds[i]>>, nodes[i] >>])

Graphs ==
    {GraphOf(ns) : ns \in {x \in NodeSeqs(MaxNodes) \ {<<>>} :
                              \A i, j \in 1..Len(x) : i # j => x[i] # x[j]}}

\* _extract_comfyui_data(prompt_data)
ExtractComfyuiData ==
    /\ parsed.op = "graph"
    /\ parsed' = [op |-> "extract_comfyui_data", graph |-> parsed.graph,
                  result |-> extract_comfyui_data(parsed.graph)]
    /\ UNCHANGED <<store_vars, tag_job, gi_vars, scan_vars, last_op, app_vars>>

InitComfy ==
    /\ EmptyStore
    /\ parsed \in {[op |-> "graph", graph |-> g] : g \in Graphs}

NextComfy == ExtractComfyuiData

SpecComfy == InitComfy /\ [][NextComfy]_vars

\* whether the node is a CLIPTextEncode node with a non-empty text
HasClipText(node) ==
    /\ Contains(DictGet(node, s_class_type, PyStr(<<>>)).v, s_CLIPTextEncode)
    /\ DictGet(DictGet(node, s_inputs, PyDict(<<>>)), s_text, PyStr(<<>>)).t = "str"
    /\ DictGet(DictGet(node, s_inputs, PyDict(<<>>)), s_text, PyStr(<<>>)).v # <<>>

ClipTextOf(node) == DictGet(DictGet(node, s_inputs, PyDict(<<>>)), s_text, PyStr(<<>>)).v

\* the string the node gives under key, <<>> when it gives none
DirectOf(node, key) ==
    LET x == DictGet(DictGet(node, s_inputs, PyDict(<<>>)), key, PyNone)
    IN  IF x.t = "str" THEN <<x.v>> ELSE <<>>

\* the positive and negative texts as the statement has them: the first
\* CLIPTextEncode text is positive, every later one negative, whatever
\* strings the nodes before them gave
RECURSIVE StatedTexts(_, _, _)
StatedTexts(pairs, i, acc) ==
    IF i > Len(pairs) THEN acc
    ELSE LET node == pairs[i][2]
             clip == IF ~HasClipText(node) THEN acc
                     ELSE IF ~acc.seen
                     THEN [acc EXCEPT !.seen = TRUE,
                                      !.positive = Append(@, ClipTextOf(node))]
                     ELSE [acc EXCEPT !.negative = Append(@, ClipTextOf(node))]
         IN  StatedTexts(pairs, i + 1,
                 [clip EXCEPT !.positive = @ \o DirectOf(node, s_positive),
                              !.negative = @ \o DirectOf(node, s_negative)])

JoinOrNone(texts) == IF texts # <<>> THEN Join(texts, <<" ">>) ELSE Null

\* C23: for every node graph and node order, _extract_comfyui_data puts the
\* first non-empty text of a CLIPTextEncode node into the positive prompt
\* and every later CLIPTextEncode text into the negative prompt, also when
\* nodes with `positive` or `negative` strings come earlier in the graph.
C23_FirstClipTextIsPositive ==
    parsed.op = "extract_comfyui_data" =>
        LET stated == StatedTexts(parsed.graph.v, 1,
                          [seen |-> FALSE, positive |-> <<>>, negative |-> <<>>])
        IN  /\ ~parsed.result.raised
            /\ parsed.result.pos = JoinOrNone(stated.positive)
            /\ parsed.result.neg = JoinOrNone(stated.negative)

(***************************************************************************)
(* The Description rule of _detect_and_parse                               *)
(***************************************************************************)

\* no step before the Description step returns or raises
ReachesDescriptionRule(metadata) ==
    LET steps == DetectSteps(metadata)
    IN  \A i \in 1..3 : ~steps[i].matched

\* what _detect_and_parse returns when the steps after the Description step
\* decide
RulesAfterDescription(metadata) ==
    LET steps == DetectSteps(metadata)
        hits == {i \in 5..Len(steps) : steps[i].matched}
    IN  IF hits = {} THEN Detected("unknown", Null, Null, Null, <<>>)
        ELSE steps[CHOOSE i \in hits : \A j \in hits : i <= j]

\* C24: where no earlier rule matched, a Description that contains "novelai"
\* in any letter case makes the record nai with that field as prompt and no
\* negative; a Description without "novelai" does not, and the result is
\* that of the rules after it.
C24_DescriptionRuleNeedsNovelai ==
    (/\ parsed.op = "detect_and_parse"
     /\ HasKey(parsed.metadata, s_Description)
     /\ ReachesDescriptionRule(parsed.metadata))
        => LET desc == DictGet(parsed.metadata, s_Description, PyNone)
           IN  IF Contains(Lower(PyToStr(desc)), s_novelai)
               THEN parsed.result = Detected("nai", TextOrValue(desc), Null, Null, <<>>)
               ELSE parsed.result = RulesAfterDescription(parsed.metadata)

(***************************************************************************)
(* One scan at a time                                                      *)
(***************************************************************************)

\* the scan jobs that were accepted and are not done
ScansInProgress == {j \in 1..MaxScans : scan_jobs[j].pc \notin {"none", "returned"}}

\* C25: at most one scan job is in progress at any time: a start_scan that
\* arrives after another was accepted and before that one is done is
\* refused.
C25_OneScanAtATime == Cardinality(ScansInProgress) <= 1

(***************************************************************************)
(* Termination of a scan                                                   *)
(***************************************************************************)

\* scan_folder lines 49-56 when the enumeration fails: folder.glob or
\* file_path.is_file() raises an OSError for an entry that cannot be
\* examined; nothing in scan_folder or in run_scan catches it, so the task
\* ends there and scan_progress keeps the value run_scan gave it
ScanCollectRaises(j) ==
    /\ scan_jobs[j].pc = "collect"
    /\ scan_jobs' = [scan_jobs EXCEPT ![j].pc = "raised"]
    /\ UNCHANGED <<store_vars, tag_job, gi_vars, parsed, last_op, scan_progress, app_vars>>

\* the steps of the background task run_scan of job j
RunScan(j) ==
    \/ RunScanBegin(j)
    \/ ScanCollect(j)
    \/ ScanCollectRaises(j)
    \/ ProgressCurrent(j)
    \/ ProgressTotal(j)
    \/ ProgressMessage(j)
    \/ ScanFile(j)
    \/ RunScanDone(j)

NextScanTask ==
    \/ \E folder \in ScanFolders : StartScan(folder)
    \/ \E j \in 1..MaxScans : RunScan(j)
    \/ GetScanProgress

\* the thread pool runs every background task it was given until the task
\* returns or raises
SpecScanTask ==
    /\ InitStore
    /\ [][NextScanTask]_vars
    /\ \A j \in 1..MaxScans : WF_vars(RunScan(j))

\* C26: every accepted scan eventually reaches the status done, whatever
\* fails while the files are enumerated or processed, so that the status
\* does not stay running and a later start_scan is accepted.
C26_ScanEventuallyDone ==
    /\ \A j \in 1..MaxScans :
          (scan_jobs[j].pc = "queued") ~> (scan_jobs[j].pc = "returned")
    /\ []<>(scan_progress.status # "running")

(***************************************************************************)
(* Moving files and the manual sort session (image_manager.py,             *)
(* routers/sorting.py)                                                     *)
(***************************************************************************)

\* os.path.dirname
Dirname(path) ==
    LET head == SubSeq(path, 1, RFind(path, "/"))
    IN  IF \A i \in 1..Len(head) : head[i] = "/" THEN head
        ELSE SubSeq(head, 1, CHOOSE k \in 1..Len(head) :
                                 /\ head[k] # "/"
                                 /\ \A j \in (k + 1)..Len(head) : head[j] = "/")

\* os.path.join of two parts
PathJoin(a, b) ==
    IF b # <<>> /\ b[1] = "/" THEN b
    ELSE IF a = <<>> \/ a[Len(a)] = "/" THEN a \o b
    ELSE a \o <<"/">> \o b

\* os.path.splitext of a file name: the extension begins at the last dot
\* that has a character other than a dot before it
SplitExt(filename) ==
    LET dot == RFind(filename, ".")
    IN  IF dot > 0 /\ \E k \in 1..(dot - 1) : filename[k] # "."
        THEN [base |-> SubSeq(filename, 1, dot - 1), ext |-> From(filename, dot)]
        ELSE [base |-> filename, ext |-> <<>>]

\* str(n) for a counter
RECURSIVE DecimalText(_)
DecimalText(n) ==
    LET digit == <<"0", "1", "2", "3", "4", "5", "6", "7", "8", "9">>[(n % 10) + 1]
    IN  IF n < 10 THEN <<digit>> ELSE DecimalText(n \div 10) \o <<digit>>

\* move_image lines 128-134: the first name base_counter.ext that no file
\* of the destination folder has
RECURSIVE FreeName(_, _, _, _)
FreeName(files, destination_folder, filename, counter) ==
    LET parts == SplitExt(filename)
        new_path == PathJoin(destination_folder,
                             parts.base \o <<"_">> \o DecimalText(counter) \o parts.ext)
    IN  IF new_path \in files
        THEN FreeName(files, destination_folder, filename, counter + 1)
        ELSE new_path

\* update_image_path (database.py lines 515-523) as a function of the rows:
\* the UPDATE raises on UNIQUE(path) when another row holds new_path and
\* changes nothing then; it changes no row when no row has the id
update_image_path(rows, image_id, new_path) ==
    IF /\ \E r \in rows : r.id = image_id
       /\ \E r \in rows : r.path = new_path /\ r.id # image_id
    THEN [raised |-> TRUE, images |-> rows]
    ELSE [raised |-> FALSE,
          images |-> {IF r.id = image_id
                      THEN [r EXCEPT !.path = new_path, !.filename = Basename(new_path)]
                      ELSE r : r \in rows}]

\* no call of move_image
NoMove == [called |-> FALSE]

\* move_image (image_manager.py lines 111-143) on the rows and the files:
\* the destination name is chosen, shutil.move raises when the file is not
\* there, and the row is updated after the file was moved
move_image(rows, files, image_id, destination_folder, image_path) ==
    LET filename == Basename(image_path)
        joined == PathJoin(destination_folder, filename)
        new_path == IF joined \in files /\ joined # image_path
                    THEN FreeName(files, destination_folder, filename, 1)
                    ELSE joined
        call == [called |-> TRUE, image_id |-> image_id, image_path |-> image_path,
                 destination_folder |-> destination_folder, new_path |-> new_path]
    IN  IF image_path \notin files
        THEN [call |-> call, raised |-> TRUE, images |-> rows, disk |-> files]
        ELSE LET moved == (files \ {image_path}) \cup {new_path}
                 updated == update_image_path(rows, image_id, new_path)
             IN  [call |-> call, raised |-> updated.raised,
                  images |-> updated.images, disk |-> moved]

\* get_image_by_id: the row, or NoRow
NoRow == [id |-> 0]

get_image_by_id(rows, image_id) ==
    IF \E r \in rows : r.id = image_id THEN CHOOSE r \in rows : r.id = image_id
    ELSE NoRow

\* the folder_key values of the requests: two configured keys, one that is
\* not configured, and none
k_1 == <<"1">>

k_2 == <<"2">>

k_9 == <<"9">>

FolderKeys == {k_1, k_2, k_9, Null}

\* the `folders` parameter of /sort/start: '{"1": "b", "2": "c"}'
f_config == <<"{","\"","1","\"",":"," ","\"","b","\"",","," ","\"","2","\"",":"," ","\"","c","\"","}">>

\* the action names of the requests; "later" is not an action of the code
SortActions == {"move", "skip", "undo", "later"}

\* lines 236-259: the arguments /sort/start passes to db.get_images
SortSessionArgs(api) ==
    LET rating_list == SplitOrNone(api.ratings)
    IN  [generators |-> SplitOrNone(api.generators),
         tags |-> IF rating_list # <<>> THEN SplitOrNone(api.tags) \o rating_list
                  ELSE SplitOrNone(api.tags),
         ratings |-> rating_list,
         checkpoints |-> SplitOrNone(api.checkpoints),
         loras |-> SplitOrNone(api.loras),
         search_query |-> Null,
         prompt_terms |-> SplitOrNone(api.prompts),
         sort_by |-> "newest",
         limit |-> no_limit,
         offset |-> 0,
         min_width |-> api.min_width, max_width |-> api.max_width,
         min_height |-> api.min_height, max_height |-> api.max_height,
         aspect_ratio |-> api.aspect_ratio]

\* database.py lines 305-394 without DISTINCT: the rows that FROM images i
\* INNER JOIN tags t0 ... WHERE ... yields, as the number of joined rows of
\* every image that has one
JoinedRows(rows, tagrows, req) ==
    [img \in {r \in rows : CoarseMatch(r, tagrows, req)} |->
        JoinCount(img, tagrows, req.tags)]

\* SELECT DISTINCT i.* (lines 278-297): joined rows with the same columns
\* are one row of the result.  The mutant is SELECT i.*, which keeps them.
SqlAll(joined) == joined

SqlDistinct(joined) == [img \in DOMAIN joined |-> 1]

\* the number of rows of a counted result
RECURSIVE TotalRows(_, _)
TotalRows(counted, S) ==
    IF S = {} THEN 0
    ELSE LET r == CHOOSE x \in S : TRUE
         IN  counted[r] + TotalRows(counted, S \ {r})

\* lines 397-426: the orders in which the query may return its rows; rows
\* that ORDER BY does not separate come in any order
OrderedJoined(counted, tagrows, sort_by) ==
    LET S == DOMAIN counted
        total == TotalRows(counted, S)
    IN  {f \in [1..total -> S] :
            /\ \A r \in S : Cardinality({i \in 1..total : f[i] = r}) = counted[r]
            /\ \A i, j \in 1..total :
                   i < j => ~OrderBefore(f[j], f[i], tagrows, sort_by)}

\* db.get_images(**req): the lists the call can return for the store
get_images(rows, tagrows, req) ==
    {WholeRequest(QueryWindow(ordered, req), req) :
        ordered \in OrderedJoined(SqlDistinct(JoinedRows(rows, tagrows, req)),
                                  tagrows, req.sort_by)}

\* lines 261-266: json.loads(folders), {} when it is absent or not JSON
FolderConfig(folders) ==
    IF Falsy(folders) \/ ~JsonDecode(folders).ok THEN PyDict(<<>>)
    ELSE JsonDecode(folders).value

\* POST /api/sort/start (lines 219-280)
StartSortSession(api, folders) ==
    /\ \E found \in get_images(images, tags, SortSessionArgs(api)) :
          sort_session' = [active |-> TRUE, images |-> found, current_index |-> 0,
                           folders |-> FolderConfig(folders), history |-> <<>>]
    /\ last_op' = [op |-> "start_sort_session", api |-> api]
    /\ UNCHANGED <<store_vars, tag_job, gi_vars, scan_vars, parsed, censor_detector, disk>>

\* a history entry; a skip entry has no paths and no folder key
HistoryEntry(action, image_id, original_path, new_path, folder_key) ==
    [action |-> action, image_id |-> image_id, original_path |-> original_path,
     new_path |-> new_path, folder_key |-> folder_key]

\* lines 317-352: undo.  The last entry is popped, a moved image is moved
\* back to the folder of its original path (an exception is printed), the
\* index goes one back, and the image at that index is read again
SortUndo ==
    IF sort_session.history = <<>>
    THEN /\ last_op' = [op |-> "sort_action", action |-> "undo", status |-> "no_history",
                        move |-> NoMove, raised |-> FALSE]
         /\ UNCHANGED <<images, disk, sort_session>>
    ELSE LET history == sort_session.history
             last == history[Len(history)]
             image == get_image_by_id(images, last.image_id)
             back == IF last.action = "move" /\ image # NoRow
                     THEN move_image(images, disk, last.image_id,
                                     Dirname(last.original_path), image.path)
                     ELSE [call |-> NoMove, raised |-> FALSE, images |-> images,
                           disk |-> disk]
             index == IF sort_session.current_index - 1 > 0
                      THEN sort_session.current_index - 1 ELSE 0
             fresh == IF index < Len(sort_session.images)
                      THEN get_image_by_id(back.images, sort_session.images[index + 1].id)
                      ELSE NoRow
         IN  /\ images' = back.images
             /\ disk' = back.disk
             /\ sort_session' =
                    [sort_session EXCEPT
                        !.history = SubSeq(history, 1, Len(history) - 1),
                        !.current_index = index,
                        !.images = IF fresh # NoRow
                                   THEN [@ EXCEPT ![index + 1] = fresh] ELSE @]
             /\ last_op' = [op |-> "sort_action", action |-> "undo", status |-> "undone",
                            move |-> back.call, raised |-> back.raised]

\* lines 354-392: move, skip and every other action name on the current
\* image.  A move whose move_image raises answers with the error and leaves
\* the index; a move without a configured folder or without the file, and
\* an action that is neither move nor skip, only advance the index
SortStep(action, folder_key) ==
    LET current == sort_session.images[sort_session.current_index + 1]
        folder == IF folder_key = Null THEN PyNone
                  ELSE DictGet(sort_session.folders, folder_key, PyNone)
        moves == /\ action = "move"
                 /\ ~Falsy(folder_key)
                 /\ folder.t = "str" /\ folder.v # <<>>
                 /\ current.path \in disk
        moved == move_image(images, disk, current.id, folder.v, current.path)
    IN  IF moves
        THEN /\ images' = moved.images
             /\ disk' = moved.disk
             /\ sort_session' =
                    IF moved.raised THEN sort_session
                    ELSE [sort_session EXCEPT
                             !.history = Append(@, HistoryEntry("move", current.id,
                                                    current.path, moved.call.new_path,
                                                    folder_key)),
                             !.current_index = @ + 1]
             /\ last_op' = [op |-> "sort_action", action |-> action,
                            status |-> IF moved.raised THEN "error" ELSE "next",
                            move |-> moved.call, raised |-> moved.raised]
        ELSE /\ sort_session' =
                    [sort_session EXCEPT
                        !.history = IF action = "skip"
                                    THEN Append(@, HistoryEntry("skip", current.id,
                                                                 Null, Null, Null))
                                    ELSE @,
                        !.current_index = @ + 1]
             /\ last_op' = [op |-> "sort_action", action |-> action, status |-> "next",
                            move |-> NoMove, raised |-> FALSE]
             /\ UNCHANGED <<images, disk>>

\* POST /api/sort/action (lines 304-405)
SortAction(action, folder_key) ==
    /\ sort_session.active
    /\ IF action = "undo" THEN SortUndo
       ELSE IF sort_session.current_index >= Len(sort_session.images)
       THEN /\ last_op' = [op |-> "sort_action", action |-> action, status |-> "done",
                           move |-> NoMove, raised |-> FALSE]
            /\ UNCHANGED <<images, disk, sort_session>>
       ELSE SortStep(action, folder_key)
    /\ UNCHANGED <<tags, next_image_id, next_tag_id, tag_job, gi_vars, scan_vars, parsed,
                   censor_detector>>

\* POST /api/move (lines 128-153) for one image id
MoveImages(image_id, destination_folder) ==
    /\ LET image == get_image_by_id(images, image_id)
           moved == move_image(images, disk, image_id, destination_folder, image.path)
       IN  IF image # NoRow /\ image.path \in disk
           THEN /\ images' = moved.images
                /\ disk' = moved.disk
                /\ last_op' = [op |-> "move_images", move |-> moved.call,
                               raised |-> moved.raised]
           ELSE /\ last_op' = [op |-> "move_images", move |-> NoMove, raised |-> FALSE]
                /\ UNCHANGED <<images, disk>>
    /\ UNCHANGED <<tags, next_image_id, next_tag_id, tag_job, gi_vars, scan_vars, parsed,
                   censor_detector, sort_session>>

\* the library of the sort scenarios: two scanned files of one name
SortRows ==
    {NewImageRow(ScanValues(p_ax, t_webui, t_cat, t_blob_empty, 100, 100, <<>>, 1), 1),
     NewImageRow(ScanValues(p_bx, t_webui, t_cat, t_blob_empty, 100, 100, <<>>, 2), 2)}

\* the folders of the move requests
d_b == <<"b">>

d_c == <<"c">>

\* the library after a scan, with the files that are still where the scan
\* found them
InitSort ==
    /\ images = SortRows
    /\ disk \in SUBSET {r.path : r \in SortRows}
    /\ tags = {}
    /\ next_image_id = 3
    /\ next_tag_id = 1
    /\ tag_job = [status |-> "idle", pending |-> {}]
    /\ gi_pc = "idle"
    /\ gi_req = NoRequest
    /\ gi_rows = <<>>
    /\ gi_seen = [images |-> {}, tags |-> {}]
    /\ gi_result = <<>>
    /\ last_op = [op |-> "init"]
    /\ parsed = [op |-> "none"]
    /\ scan_progress = ScanProgressIdle
    /\ scan_jobs = [j \in 1..MaxScans |-> NoScanJob]
    /\ censor_detector = NoDetector
    /\ sort_session = NoSortSession

NextSort ==
    \/ \E folders \in {Null, f_config} : StartSortSession(ApiDefaults, folders)
    \/ \E action \in SortActions, folder_key \in FolderKeys : SortAction(action, folder_key)
    \/ \E r \in SortRows, folder \in {d_b, d_c} : MoveImages(r.id, folder)

SpecSort == InitSort /\ [][NextSort]_vars

\* the index of the session's list at which the image of a history entry is
IndexOfImage(image_id) ==
    (CHOOSE i \in 1..Len(sort_session.images) : sort_session.images[i].id = image_id) - 1

\* the step is an answered /sort/action request
SortAnswered(action, status) ==
    /\ last_op'.op = "sort_action"
    /\ last_op'.action = action
    /\ last_op'.status = status

\* C27: in a sort session a successful undo puts current_index back to the
\* index at which the undone action was performed, an undo with an empty
\* history leaves current_index and the history as they are, and
\* current_index is always within 0..len(images).
C27_UndoReturnsToUndoneImage ==
    /\ [](sort_session.current_index \in 0..Len(sort_session.images))
    /\ [][sort_session.active /\ sort_session.history = <<>>
             /\ SortAnswered("undo", "no_history")
          => sort_session' = sort_session]_vars
    /\ [][sort_session.active /\ sort_session.history # <<>>
             /\ SortAnswered("undo", "undone")
          => sort_session'.current_index =
                 IndexOfImage(sort_session.history[Len(sort_session.history)].image_id)]_vars

\* the step made a call of move_image
MoveCalled ==
    /\ last_op'.op \in {"sort_action", "move_images"}
    /\ last_op'.move.called

\* C28: move_image keeps the file and the record in step.  When it returns,
\* the record's path is the file's new location, its filename the new base
\* name, and no file that was at the destination is overwritten; when it
\* raises at any step, the file and the record's path are as before the
\* call.
C28_MoveKeepsFileAndRecordInStep ==
    [][MoveCalled =>
          LET m == last_op'.move
          IN  IF last_op'.raised
              THEN /\ disk' = disk
                   /\ images' = images
              ELSE /\ get_image_by_id(images', m.image_id).path = m.new_path
                   /\ get_image_by_id(images', m.image_id).filename = Basename(m.new_path)
                   /\ m.new_path \in disk'
                   /\ m.new_path \in disk => m.new_path = m.image_path]_vars

(***************************************************************************)
(* The selections of /sort/start and /batch-move (routers/sorting.py)      *)
(***************************************************************************)

\* the body the gallery posts to /batch-move for the filters of a gallery
\* request: the lists of BatchMoveRequest in place of comma-joined texts
BatchMoveRequest(api, destination_folder) ==
    [generators |-> SplitOrNone(api.generators), tags |-> SplitOrNone(api.tags),
     ratings |-> SplitOrNone(api.ratings), checkpoints |-> SplitOrNone(api.checkpoints),
     loras |-> SplitOrNone(api.loras), prompts |-> SplitOrNone(api.prompts),
     min_width |-> api.min_width, max_width |-> api.max_width,
     min_height |-> api.min_height, max_height |-> api.max_height,
     aspect_ratio |-> api.aspect_ratio, destination_folder |-> destination_folder]

\* lines 167-194: the arguments /batch-move passes to db.get_images; the
\* ratings are appended to the tags and no `ratings` argument is passed
BatchMoveArgs(request) ==
    [generators |-> request.generators,
     tags |-> request.tags \o request.ratings,
     ratings |-> <<>>,
     checkpoints |-> request.checkpoints,
     loras |-> request.loras,
     search_query |-> Null,
     prompt_terms |-> request.prompts,
     sort_by |-> "newest",
     limit |-> no_limit,
     offset |-> 0,
     min_width |-> request.min_width, max_width |-> request.max_width,
     min_height |-> request.min_height, max_height |-> request.max_height,
     aspect_ratio |-> request.aspect_ratio]

\* lines 205-214: the selected images are moved one after the other; an
\* image whose file is missing is passed over and an exception of
\* move_image is recorded
RECURSIVE MoveEach(_, _, _, _)
MoveEach(found, destination_folder, rows, files) ==
    IF found = <<>> THEN [images |-> rows, disk |-> files]
    ELSE LET image == Head(found)
             moved == move_image(rows, files, image.id, destination_folder, image.path)
         IN  IF image.path \in files
             THEN MoveEach(Tail(found), destination_folder, moved.images, moved.disk)
             ELSE MoveEach(Tail(found), destination_folder, rows, files)

\* POST /api/batch-move (lines 156-218)
BatchMoveImages(request) ==
    /\ \E found \in get_images(images, tags, BatchMoveArgs(request)) :
          LET after == MoveEach(found, request.destination_folder, images, disk)
          IN  /\ images' = after.images
              /\ disk' = after.disk
              /\ last_op' = [op |-> "batch_move_images", request |-> request,
                             selected |-> {found[i].id : i \in 1..Len(found)},
                             seen |-> [images |-> images, tags |-> tags]]
    /\ UNCHANGED <<tags, next_image_id, next_tag_id, tag_job, gi_vars, scan_vars, parsed,
                   censor_detector, sort_session>>

\* the rating tags a tagging job stores for an image
SelectTags == {<<TagEntry(t_general, 80)>>, <<TagEntry(t_explicit, 80)>>}

\* the filters of the selection scenarios: by generator and by ratings
SelectRequests ==
    {[ApiDefaults EXCEPT !.generators = g, !.ratings = r] :
        g \in {Null, t_webui}, r \in {Null, r_general, r_explicit_general}}

\* the library after a scan, every file in place
InitSelect == InitSort /\ disk = {r.path : r \in SortRows}

NextSelect ==
    \/ \E r \in SortRows, taglist \in SelectTags : AddTagsCall(r.id, taglist)
    \/ \E api \in SelectRequests : StartSortSession(api, Null)
    \/ \E api \in SelectRequests : BatchMoveImages(BatchMoveRequest(api, d_c))

SpecSelect == InitSelect /\ [][NextSelect]_vars

\* the ids of the images GET /api/images returns for the filters, on the
\* given tables
GalleryIds(api, rows, tagrows) ==
    UNION {{found[i].id : i \in 1..Len(found)} :
              found \in get_images(rows, tagrows, RouterArgs(api))}

\* the gallery request with the filters of a /batch-move body
ApiOfRequest(request) ==
    CHOOSE api \in SelectRequests :
        BatchMoveRequest(api, request.destination_folder) = request

\* C29: for the same criteria, the images a sort session is started with
\* and the images /batch-move selects are the images get_images returns to
\* the gallery; a set of ratings selects the images that have one of the
\* ratings and the untagged images in all three.
C29_SameSelectionAsGallery ==
    /\ last_op.op = "start_sort_session" =>
           {sort_session.images[i].id : i \in 1..Len(sort_session.images)}
               = GalleryIds(last_op.api, images, tags)
    /\ last_op.op = "batch_move_images" =>
           last_op.selected
               = GalleryIds(ApiOfRequest(last_op.request), last_op.seen.images,
                            last_op.seen.tags)

(***************************************************************************)
(* GET /api/images over joined tag rows                                    *)
(***************************************************************************)

\* GET /api/images (routers/images.py lines 16-73) answered in one step
GetImages(api) ==
    /\ \E found \in get_images(images, tags, RouterArgs(api)) :
          last_op' = [op |-> "get_images_call", api |-> api, result |-> found]
    /\ UNCHANGED <<store_vars, tag_job, gi_vars, scan_vars, parsed, app_vars>>

\* the tags a tagging job stores: two tags that the substrings "cat" and
\* "a" both match, or one rating
JoinedTags ==
    {<<TagEntry(t_cat, 90), TagEntry(t_category, 80)>>, <<TagEntry(t_general, 80)>>}

\* "cat,a"
t_cat_a == <<"c","a","t",",","a">>

\* the gallery requests: no, one and two tag substrings, on the fast path
\* and with a prompt term, by several sort keys, whole and paginated
JoinedRequests ==
    {[ApiDefaults EXCEPT !.tags = ta, !.prompts = pr, !.sort_by = so,
                         !.limit = w[1], !.offset = w[2]] :
        ta \in {Null, t_cat, t_cat_a}, pr \in {Null, t_cat},
        so \in {"newest", "tag_count", "random"}, w \in {<<0, 0>>, <<2, 1>>}}

NextJoined ==
    \/ \E r \in SortRows, taglist \in JoinedTags : AddTagsCall(r.id, taglist)
    \/ \E api \in JoinedRequests : GetImages(api)

SpecJoined == InitSelect /\ [][NextJoined]_vars

====
